---- MODULE Spec2Model ----
(***************************************************************************)
(* pytest-sessions: the session stores (one sqlite `items` table per       *)
(* session file), the Session Recorder (SessionPlugin), and the Rerun      *)
(* Selector (RerunPlugin), over a chain of sessions run one after another  *)
(* in the same cache directory.                                            *)
(*                                                                         *)
(* A node id is the sequence of its segments: the path parts followed by   *)
(* the symbol names ("a.py::t1" is <<"a.py", "t1">>), which is the form    *)
(* IdTrie.id_to_path gives it.  A table is the sequence of its rows in     *)
(* rowid order.  The value None of self.rerun is the empty set: the code   *)
(* only ever tests self.rerun for truth, and both are falsy.               *)
(*                                                                         *)
(* Spec is a chain of sessions whose candidate lists the host hands over   *)
(* as it likes.  DirSpec is one session over a cache directory that        *)
(* earlier sessions and the user have left behind.                         *)
(***************************************************************************)
EXTENDS Integers, Sequences, FiniteSets, TLC

\* ---------------------------------------------------------------- bounds
\* sessions run one after another in the cache directory
MaxSessions == 2
\* events delivered by the host (collection reports, phase reports, warnings),
\* over all sessions
MaxEvents == 2
\* session files found in the cache directory when DirSpec starts
MaxDir == 2

\* ------------------------------------------------------------ the domain
Null == "null"

\* init_db: the CHECK constraint on items.outcome
Outcomes ==
    {"pending", "skipped", "xfailed", "xpassed", "warnings", "error", "failed", "passed"}

\* the collectors (files) and the tests the host can collect, in the
\* host's collection order
FileIds == {<<"a.py">>, <<"b.py">>}
CollectionOrder == << <<"a.py", "t1">>, <<"a.py", "t2">>, <<"b.py", "t1">> >>

Range(s) == {s[i] : i \in DOMAIN s}

\* the tests the files can hold when the collection is followed collector by
\* collector: two functions and a class with two methods in a.py, a function
\* in b.py; and the files in the order the host lists a directory
HostOrder ==
    << <<"a.py", "t1">>, <<"a.py", "t2">>, <<"a.py", "C", "m">>, <<"a.py", "C", "n">>,
       <<"b.py", "t1">> >>
FileOrder == << <<"a.py">>, <<"b.py">> >>

TestIds == Range(HostOrder)

\* the directories below the root
DirIds == {<<"d">>, <<"d", "e">>}
NodeIds == FileIds \cup TestIds

\* the file trees the sessions run in: everything there, or b.py deleted
Trees == {FileIds, {<<"a.py">>}}

\* values of the sessions_limit ini setting (default 100)
SessionLimits == {0, 1, 100}

\* --reference naming a file that is not in the cache directory
NoSuch == -1

\* how the host runs the session: a plain run, --collect-only, --cache-show,
\* or as an xdist worker (config.workerinput)
Modes == {"run", "collectonly", "cacheshow", "worker"}

\* the command lines: --rerun as its comma-separated tags (<<>>: not given),
\* --lf, --lfnf, --sw, --sw-skip, --sw-reset
RerunArgs == {<<>>, <<"new", "failed">>, <<"failed", "pending", "">>}
CommandLines ==
    [rerun : RerunArgs, lf : BOOLEAN, lfnf : {"all", "none"},
     sw : {FALSE}, sw_skip : {FALSE}, sw_reset : {FALSE}]

\* the reports of the host's run phases: when, raw outcome, wasxfail
RawOutcomes == {"passed", "failed", "skipped"}
HostReports ==
    {<<"call", "passed", FALSE>>, <<"call", "failed", FALSE>>,
     <<"setup", "failed", FALSE>>, <<"call", "skipped", TRUE>>}

VARIABLES
    stores,       \* the session files, in creation (name) order
    meta,         \* per session: its reference, the ids collected and deselected in
                  \* it, and the ids its store held when it was marked complete
    pc,           \* where the current session is in the host's hook sequence
    files,        \* the files that exist under the root
    requested,    \* the categories asked for on the command line
    rerun,        \* RerunPlugin.rerun
    all_if_none,  \* RerunPlugin.all_if_none
    items,        \* the host's candidate list (session.items)
    deselected,   \* the list given to pytest_deselected
    notified,     \* whether pytest_deselected was called
    hist,         \* per node: the normalized outcomes of its phase reports, in order
    warned,       \* the nodes a runtest warning was recorded for
    nevents,      \* host events delivered so far
    mode,         \* how the host runs the current session
    present,      \* the tests that exist in the files
    args,         \* the nodes named on the command line
    trie,         \* SkipCollection.trie, as the ids it was built from ({} when
                  \* no SkipCollection is registered)
    found_failure,  \* SkipCollection.found_failure (SkipCollected is registered)
    skipped_paths,  \* SkipCollection.skipped_paths
    todo,         \* the nodes the host's traversal has still to visit
    collected,    \* the items the host's traversal has yielded
    reorder,      \* ReorderPlugin.reorder (<<>> when no ReorderPlugin is registered)
    mtime,        \* per file: its modification time (st_mtime)
    emitted,      \* the collection and phase results the host delivered in the
                  \* current session, in order
    shown,        \* the store a --show-session run replays
    testsfailed,  \* session.testsfailed of a --show-session run
    replayed,     \* the events a --show-session run has emitted, in order
    strays,       \* the references that were not there and that connecting or
                  \* attaching to has created as empty files
    maxfail,      \* config.option.maxfail: the failures after which the host
                  \* stops the run (0: it does not stop)
    lookups       \* the last containment test made on the trie, with its answer

\* the state of the host's traversal and of the skipper
skipvars == <<present, args, trie, found_failure, skipped_paths, todo, collected>>

\* the state the reordering reads
ordervars == <<reorder, mtime>>

\* the state of a --show-session run, and the files opening a missing
\* reference has left
showvars == <<shown, testsfailed, replayed, strays>>

vars ==
    <<stores, meta, pc, files, requested, rerun, all_if_none, items, deselected,
      notified, hist, warned, nevents, mode, present, args, trie, found_failure,
      skipped_paths, todo, collected, reorder, mtime, emitted, shown, testsfailed,
      replayed, strays, maxfail, lookups>>

\* ------------------------------------------------ the events of the hooks
\* pytest_collectreport with the report of a collector, whose text is its
\* raw outcome; pytest_runtest_logreport with the report of a phase of an
\* item; pytest_runtest_logstart and pytest_runtest_logfinish
CollectEvent(id, text) == <<"collectreport", id, text>>
PhaseEvent(id, text) == <<"logreport", id, text>>
StartEvent(id) == <<"logstart", id, "">>
FinishEvent(id) == <<"logfinish", id, "">>

\* ---------------------------------------------------------------- tables
IdsOf(tbl) == {tbl[i].nodeid : i \in DOMAIN tbl}
HasRow(tbl, id) == \E i \in DOMAIN tbl : tbl[i].nodeid = id
RowOf(tbl, id) == tbl[CHOOSE i \in DOMAIN tbl : tbl[i].nodeid = id]

\* a row as an INSERT of nodeid, outcome and collect leaves it: the phase
\* columns and the location columns (filename, lineno, testname, held as
\* one text) are NULL
NewRow(id, outcome, collect) ==
    [nodeid |-> id, outcome |-> outcome, collect |-> collect,
     setup |-> Null, call |-> Null, teardown |-> Null, location |-> Null]

\* the store of the running session, and its attached reference
Cur == Len(stores)
Live == stores[Cur].items
Ref == meta[Cur].ref
RefItems == IF Ref \in DOMAIN stores THEN stores[Ref].items ELSE <<>>
\* ATTACH of a file that does not exist gives a database without tables;
\* init_db(schema='reference') only runs for ':memory:'
RefHasItems == Ref # NoSuch

\* --------------------------------------------------------- pytest_configure
\* a variant that takes the newest session file, complete or not
ImplicitReferenceNewest(ss) ==
    LET found == {i \in DOMAIN ss : ~ss[i].deleted /\ ss[i].named}
    IN  IF found = {} THEN 0 ELSE CHOOSE i \in found : \A j \in found : j <= i

\* the reference when --reference is not given: the newest file named
\* session-* whose user_version is 5, else ':memory:' (0)
ImplicitReference(ss) ==
    LET complete == {i \in DOMAIN ss : ~ss[i].deleted /\ ss[i].named /\ ss[i].version = 5}
    IN  IF complete = {} THEN 0 ELSE CHOOSE i \in complete : \A j \in complete : j <= i

ConfigReference(opt, ss) ==
    IF opt.reference # 0 THEN opt.reference ELSE ImplicitReference(ss)

\* the rerun string handed to RerunPlugin, as its comma-separated pieces
ConfigRerun(opt) ==
    IF opt.rerun # <<>> THEN opt.rerun
    ELSE IF opt.lf THEN <<"failed", "error">>
    ELSE IF opt.sw_skip THEN <<"failed", "error", "pending", "new">>
    ELSE IF opt.sw_reset THEN <<>>
    ELSE IF opt.sw THEN <<"failed", "error", "pending", "new">>
    ELSE <<>>

ConfigAllIfNone(opt) ==
    IF opt.rerun = <<>> /\ opt.lf THEN opt.lfnf = "all" ELSE TRUE

\* config.option.maxfail after pytest_configure: what the command line gave
\* (-x is 1, --maxfail N is N, 0 when neither is given), unless a stepwise
\* flag is the one that sets the categories
ConfigMaxfail(opt) ==
    IF opt.rerun # <<>> THEN opt.maxfail
    ELSE IF opt.lf THEN opt.maxfail
    ELSE IF opt.sw_skip THEN 2
    ELSE IF opt.sw_reset THEN 1
    ELSE IF opt.sw THEN 1
    ELSE opt.maxfail

\* the rerun_order string, as its comma-separated pieces, stripped
ConfigOrder(opt) ==
    IF opt.order # <<>> THEN opt.order
    ELSE IF opt.ff THEN <<"failed", "error">>
    ELSE IF opt.nf THEN <<"new">>
    ELSE <<>>

\* {o: i for i, o in enumerate(filter(None, map(str.strip, rerun_order.split(','))))}:
\* a category given several times gets the index of its last occurrence.  The
\* plugin is registered when the mapping is not empty
ReorderInit(pieces) ==
    LET given == SelectSeq(pieces, LAMBDA o : o # "")
    IN  [o \in Range(given) |->
            (CHOOSE i \in DOMAIN given : given[i] = o /\ \A j \in DOMAIN given : given[j] = o => j <= i) - 1]

\* {tag for r in rerun.split(',') if (tag := r.strip())}
ParseRerun(pieces) == Range(pieces) \ {""}

\* nodeid.split('::')[0], as path parts
FilePath(id) == SubSeq(id, 1, 1)

\* a variant that never raises Empty
SkipCollectionNeverEmpty(refTbl, outcomes, tree) == FALSE

\* SkipCollection.__init__ raises Empty
SkipCollectionEmpty(refTbl, outcomes, tree) ==
    LET nodeids == {refTbl[i].nodeid : i \in {j \in DOMAIN refTbl : refTbl[j].outcome \in outcomes}}
        paths == {FilePath(n) : n \in nodeids}
    IN  \/ ~(\E p \in paths : p \in tree)
        \/ nodeids = {}

\* RerunPlugin.__init__: self.rerun
RerunInit(pieces, aif, refTbl, tree) ==
    IF pieces = <<>> THEN {}
    ELSE LET tags == ParseRerun(pieces)
         IN  IF tags # {} /\ "new" \notin tags
                 /\ SkipCollectionEmpty(refTbl, tags, tree) /\ aif
             THEN {}
             ELSE tags

\* SkipCollection is constructed, and its query on reference.items runs
SkipCollectionBuilt(pieces) ==
    ParseRerun(pieces) # {} /\ "new" \notin ParseRerun(pieces)

\* SELECT nodeid FROM reference.items WHERE outcome in (outcomes)
MatchingIds(refTbl, outcomes) ==
    {refTbl[i].nodeid : i \in {j \in DOMAIN refTbl : refTbl[j].outcome \in outcomes}}

\* the trie of the SkipCollection that RerunPlugin.__init__ registers, {} when
\* it registers none
SkipCollectionInit(pieces, refTbl, tree) ==
    IF SkipCollectionBuilt(pieces) /\ ~SkipCollectionEmpty(refTbl, ParseRerun(pieces), tree)
    THEN MatchingIds(refTbl, ParseRerun(pieces))
    ELSE {}

\* sqlite3.connect(reference), ATTACH ? AS reference: a file that is not
\* there is created, empty
Opened(made, ref) == IF ref = NoSuch THEN made \cup {ref} ELSE made

\* SessionPlugin.__init__ and init_db: a fresh file named session-<now>,
\* user_version 1
NewStore == [version |-> 1, deleted |-> FALSE, named |-> TRUE, items |-> <<>>]

NoHist == [n \in TestIds |-> <<>>]

\* pytest_configure with the plugins it constructs.  With a reference that
\* has no items table the query of SkipCollection.__init__ raises, and
\* configuration fails; with --cache-show the host collects and runs nothing
Configure(opt, tree) ==
    /\ pc \in {"idle", "done", "crashed", "error"}
    /\ opt.reference \in {0, NoSuch} \cup {i \in DOMAIN stores : ~stores[i].deleted}
    /\ LET ref == ConfigReference(opt, stores)
           refTbl == IF ref \in DOMAIN stores THEN stores[ref].items ELSE <<>>
       IN  /\ stores' = Append(stores, NewStore)
           /\ meta' = Append(meta, [ref |-> ref, collected |-> {}, desel |-> {},
                                     final |-> {}])
           /\ requested' = ParseRerun(ConfigRerun(opt))
           /\ rerun' = RerunInit(ConfigRerun(opt), ConfigAllIfNone(opt), refTbl, tree)
           /\ all_if_none' = ConfigAllIfNone(opt)
           /\ trie' = SkipCollectionInit(ConfigRerun(opt), refTbl, tree)
           /\ pc' = IF ref = NoSuch /\ SkipCollectionBuilt(ConfigRerun(opt)) THEN "error"
                    ELSE IF opt.mode = "cacheshow" THEN "finish"
                    ELSE "collect"
    /\ mode' = opt.mode
    /\ files' = tree \cap FileIds
    /\ present' = tree \ FileIds
    /\ args' = opt.args
    /\ found_failure' = FALSE
    /\ skipped_paths' = 0
    /\ todo' = << <<>> >>
    /\ collected' = <<>>
    /\ items' = <<>>
    /\ deselected' = <<>>
    /\ notified' = FALSE
    /\ hist' = NoHist
    /\ warned' = {}
    /\ reorder' = IF ConfigReference(opt, stores) = NoSuch /\ SkipCollectionBuilt(ConfigRerun(opt))
                  THEN <<>>
                  ELSE ReorderInit(ConfigOrder(opt))
    /\ emitted' = <<>>
    /\ strays' = Opened(strays, ConfigReference(opt, stores))
    /\ maxfail' = ConfigMaxfail(opt)
    /\ UNCHANGED <<nevents, mtime, shown, testsfailed, replayed, lookups>>

\* ------------------------------------------------------------ SessionPlugin
\* a variant that writes to the attached reference when there is one
SetReference(tbl) ==
    stores' = [stores EXCEPT ![IF Ref \in DOMAIN stores THEN Ref ELSE Cur].items = tbl]

\* every statement of the plugins writes to main.items, the table of the
\* session's own file
SetLive(tbl) == stores' = [stores EXCEPT ![Cur].items = tbl]

\* a variant that stores a failed collection as 'error', as a phase report of
\* the collect phase would be
RecordCollectOutcomeAsError(tbl, id, outcome, blob) ==
    LET stored == IF outcome = "failed" THEN "error" ELSE outcome
    IN  IF HasRow(tbl, id)
        THEN [i \in DOMAIN tbl |->
                IF tbl[i].nodeid = id
                THEN [tbl[i] EXCEPT !.outcome = stored, !.collect = blob]
                ELSE tbl[i]]
        ELSE Append(tbl, NewRow(id, stored, blob))

\* INSERT ... ON CONFLICT DO UPDATE SET outcome = excluded.outcome,
\*                                     collect = excluded.collect
RecordCollectOutcome(tbl, id, outcome, blob) ==
    IF HasRow(tbl, id)
    THEN [i \in DOMAIN tbl |->
            IF tbl[i].nodeid = id
            THEN [tbl[i] EXCEPT !.outcome = outcome, !.collect = blob]
            ELSE tbl[i]]
    ELSE Append(tbl, NewRow(id, outcome, blob))

\* pytest_collectreport, for the report of collector id with raw outcome raw
CollectReport(id, raw) ==
    /\ pc = "collect"
    /\ nevents < MaxEvents
    /\ nevents' = nevents + 1
    /\ meta' = [meta EXCEPT ![Cur].collected = @ \cup {id}]
    /\ IF raw = "failed" THEN SetLive(RecordCollectOutcome(Live, id, "failed", raw))
       ELSE IF raw = "skipped" THEN SetLive(RecordCollectOutcome(Live, id, "skipped", raw))
       ELSE UNCHANGED stores
    /\ emitted' = Append(emitted, CollectEvent(id, raw))
    /\ UNCHANGED <<pc, files, requested, rerun, all_if_none, items, deselected,
                   notified, hist, warned, mode, skipvars, ordervars, showvars, maxfail, lookups>>

\* a variant that inserts nothing
InsertPendingNothing(tbl, its) == [tbl |-> tbl, raised |-> FALSE]

\* INSERT INTO items (nodeid, outcome) VALUES (?, 'pending'), row by row
\* (executemany, autocommit): a row whose id is already there violates the
\* unique index, the statement raises and the rows after it are not inserted
RECURSIVE InsertPending(_, _)
InsertPending(tbl, its) ==
    IF its = <<>> THEN [tbl |-> tbl, raised |-> FALSE]
    ELSE IF HasRow(tbl, Head(its)) THEN [tbl |-> tbl, raised |-> TRUE]
    ELSE InsertPending(Append(tbl, NewRow(Head(its), "pending", Null)), Tail(its))

\* the candidate lists the host can hand over: tests of existing files, in
\* collection order
RECURSIVE SubSeqs(_)
SubSeqs(s) ==
    IF s = <<>> THEN {<<>>}
    ELSE LET rest == SubSeqs(Tail(s))
         IN  rest \cup {<<Head(s)>> \o r : r \in rest}

Candidates(tree) ==
    {its \in SubSeqs(CollectionOrder) : \A i \in DOMAIN its : FilePath(its[i]) \in tree}

\* the candidate lists of a host run with --keep-duplicates and the same file
\* given twice: the tests of the file, twice
KeptDuplicates(tree) ==
    {its \o its : its \in {c \in Candidates(tree) :
                              c # <<>> /\ \A i \in DOMAIN c : FilePath(c[i]) = FilePath(c[1])}}

\* SessionPlugin.pytest_collection_modifyitems (tryfirst)
SessionModifyItems(its) ==
    /\ pc = "collect"
    /\ items' = its
    /\ SetLive(InsertPending(Live, its).tbl)
    /\ meta' = [meta EXCEPT ![Cur].collected = @ \cup Range(its)]
    /\ pc' = IF InsertPending(Live, its).raised THEN "finish" ELSE "select"
    /\ UNCHANGED <<files, requested, rerun, all_if_none, deselected, notified,
                   hist, warned, nevents, mode, skipvars, ordervars, emitted, showvars, maxfail, lookups>>

\* a variant that spares the outcomes a phase report spares
RecordWarningGuarded(tbl, id) ==
    [i \in DOMAIN tbl |->
        IF tbl[i].nodeid = id /\ tbl[i].outcome \in {"pending", "passed"}
        THEN [tbl[i] EXCEPT !.outcome = "warnings"]
        ELSE tbl[i]]

\* UPDATE items SET outcome = 'warnings' WHERE nodeid = ?
RecordWarning(tbl, id) ==
    [i \in DOMAIN tbl |->
        IF tbl[i].nodeid = id THEN [tbl[i] EXCEPT !.outcome = "warnings"] ELSE tbl[i]]

\* pytest_warning_recorded, for a warning raised while the item id runs, or
\* one without a node id (<<>>); with --collect-only no item runs
WarningRecorded(when, id) ==
    /\ pc = "run"
    /\ nevents < MaxEvents
    /\ id = <<>> \/ mode # "collectonly"
    /\ nevents' = nevents + 1
    /\ IF id = <<>> \/ when # "runtest"
       THEN UNCHANGED <<stores, warned>>
       ELSE /\ SetLive(RecordWarning(Live, id))
            /\ warned' = warned \cup {id}
    /\ UNCHANGED <<meta, pc, files, requested, rerun, all_if_none, items, deselected,
                   notified, hist, mode, skipvars, ordervars, emitted, showvars, maxfail, lookups>>

\* a variant that tests report.skipped before the wasxfail attribute
NormalizeSkippedFirst(raw, wasxfail, when) ==
    IF raw = "skipped" THEN "skipped"
    ELSE IF wasxfail THEN "x" \o raw
    ELSE IF when \in {"collect", "setup", "teardown"} /\ raw = "failed" THEN "error"
    ELSE raw

\* pytest_runtest_logreport: the outcome stored for a report
Normalize(raw, wasxfail, when) ==
    IF wasxfail
    THEN IF raw = "skipped" THEN "xfailed"
         ELSE "x" \o raw
    ELSE IF raw = "skipped" THEN "skipped"
    ELSE IF when \in {"collect", "setup", "teardown"} /\ raw = "failed" THEN "error"
    ELSE raw

\* a variant that leaves out the guard on the stored outcome
UpdateOutcomeUnguarded(row, outcome) == [row EXCEPT !.outcome = outcome]

\* a variant whose guard also lets a stored 'failed' be overwritten
UpdateOutcomeOverFailed(row, outcome) ==
    IF row.outcome \in {"pending", "passed", "failed"}
    THEN [row EXCEPT !.outcome = outcome]
    ELSE row

\* UPDATE items SET outcome = ? WHERE nodeid = ? AND outcome in ('pending', 'passed')
UpdateOutcome(row, outcome) ==
    IF row.outcome \in {"pending", "passed"}
    THEN [row EXCEPT !.outcome = outcome]
    ELSE row

\* UPDATE items SET {when} = ? WHERE nodeid = ?
UpdateBlob(row, when, blob) ==
    IF when = "setup" THEN [row EXCEPT !.setup = blob]
    ELSE IF when = "call" THEN [row EXCEPT !.call = blob]
    ELSE IF when = "teardown" THEN [row EXCEPT !.teardown = blob]
    ELSE row

\* a variant that stores the text of a report only when the report changes
\* the outcome
RecordPhaseOutcomeIfChanged(tbl, id, when, outcome, blob) ==
    [i \in DOMAIN tbl |->
        IF tbl[i].nodeid = id /\ tbl[i].outcome \in {"pending", "passed"}
        THEN UpdateBlob(UpdateOutcome(tbl[i], outcome), when, blob)
        ELSE tbl[i]]

\* the two UPDATEs of pytest_runtest_logreport
RecordPhaseOutcome(tbl, id, when, outcome, blob) ==
    [i \in DOMAIN tbl |->
        IF tbl[i].nodeid = id
        THEN UpdateBlob(UpdateOutcome(tbl[i], outcome), when, blob)
        ELSE tbl[i]]

\* json.dumps(report._to_json()): the text of a phase report
ReportJson(when, raw, wasxfail) ==
    when \o ":" \o raw \o (IF wasxfail THEN ":wasxfail" ELSE "")

\* pytest_runtest_logreport, for a report of the running item id; with
\* --collect-only no item runs
LogReport(id, when, raw, wasxfail) ==
    /\ pc = "run"
    /\ mode # "collectonly"
    /\ nevents < MaxEvents
    /\ nevents' = nevents + 1
    /\ id \in Range(items)
    /\ SetLive(RecordPhaseOutcome(Live, id, when, Normalize(raw, wasxfail, when),
                                  ReportJson(when, raw, wasxfail)))
    /\ hist' = [hist EXCEPT ![id] = Append(@, Normalize(raw, wasxfail, when))]
    /\ emitted' = Append(emitted, PhaseEvent(id, ReportJson(when, raw, wasxfail)))
    /\ UNCHANGED <<meta, pc, files, requested, rerun, all_if_none, items, deselected,
                   notified, warned, mode, skipvars, ordervars, showvars, maxfail, lookups>>

\* item.location: the file, the line and the dotted name of a test
Location(id) ==
    IF id = <<"a.py", "t1">> THEN "a.py:0:t1"
    ELSE IF id = <<"a.py", "t2">> THEN "a.py:1:t2"
    ELSE IF id = <<"b.py", "t1">> THEN "b.py:0:t1"
    ELSE IF id = <<"a.py", "C", "m">> THEN "a.py:3:C.m"
    ELSE "a.py:4:C.n"

\* UPDATE items SET filename = ?, lineno = ?, testname = ? WHERE nodeid = ?
UpdateLocation(tbl, id, location) ==
    [i \in DOMAIN tbl |->
        IF tbl[i].nodeid = id THEN [tbl[i] EXCEPT !.location = location] ELSE tbl[i]]

\* pytest_runtest_logstart, for the item id the host is about to run
LogStart(id) ==
    /\ pc = "run"
    /\ mode # "collectonly"
    /\ nevents < MaxEvents
    /\ nevents' = nevents + 1
    /\ id \in Range(items)
    /\ SetLive(UpdateLocation(Live, id, Location(id)))
    /\ UNCHANGED <<meta, pc, files, requested, rerun, all_if_none, items, deselected,
                   notified, hist, warned, mode, skipvars, ordervars, emitted,
                   showvars, maxfail, lookups>>

\* SessionPlugin.pytest_sessionfinish: the stores deleted by sessionfiles[:-limit]
RetentionVictims(ss, lim) ==
    LET sessionfiles == {i \in DOMAIN ss : ~ss[i].deleted /\ ss[i].named}
        n == Cardinality(sessionfiles)
    IN  IF lim = 0 \/ n <= lim THEN {}
        ELSE {i \in sessionfiles : Cardinality({j \in sessionfiles : j < i}) < n - lim}

\* a variant that stamps every session file
MarkCompleteAll(ss) == [i \in DOMAIN ss |-> [ss[i] EXCEPT !.version = 5]]

\* PRAGMA user_version = 5, on the session's own file
MarkComplete(ss) == [ss EXCEPT ![Len(ss)].version = 5]

\* if config.getoption("cacheshow") or hasattr(config, "workerinput"), and
\* if config.getoption("collectonly")
FinishReturnsEarly(m) == m \in {"cacheshow", "worker", "collectonly"}

SessionFinish(limit) ==
    /\ pc = "finish_session"
    /\ IF FinishReturnsEarly(mode)
       THEN UNCHANGED <<stores, meta>>
       ELSE /\ stores' = [i \in DOMAIN stores |->
                            IF i \in RetentionVictims(stores, limit)
                            THEN [MarkComplete(stores)[i] EXCEPT !.deleted = TRUE]
                            ELSE MarkComplete(stores)[i]]
            /\ meta' = [meta EXCEPT ![Cur].final = IdsOf(Live)]
    /\ pc' = "done"
    /\ UNCHANGED <<files, requested, rerun, all_if_none, items, deselected,
                   notified, hist, warned, nevents, mode, skipvars, ordervars, emitted, showvars, maxfail, lookups>>

\* -------------------------------------------------------------- RerunPlugin
\* a variant that merges nothing
MergeNothing(tbl, refTbl) == tbl

\* a variant that inserts every reference row, whatever the live rows
MergeAppending(tbl, refTbl) == tbl \o refTbl

\* a variant that replaces the live rows the reference also has (INSERT OR REPLACE)
MergeOverwriting(tbl, refTbl) ==
    [i \in DOMAIN tbl |->
        IF HasRow(refTbl, tbl[i].nodeid) THEN RowOf(refTbl, tbl[i].nodeid) ELSE tbl[i]]
    \o SelectSeq(refTbl, LAMBDA r : ~HasRow(tbl, r.nodeid))

\* INSERT INTO main.items SELECT * FROM reference.items WHERE true
\* ON CONFLICT DO NOTHING
RECURSIVE MergeReference(_, _)
MergeReference(tbl, refTbl) ==
    IF refTbl = <<>> THEN tbl
    ELSE IF HasRow(tbl, Head(refTbl).nodeid) THEN MergeReference(tbl, Tail(refTbl))
    ELSE MergeReference(Append(tbl, Head(refTbl)), Tail(refTbl))

\* a variant that finds no reference row
PrevOutcomeAlwaysNew(refTbl, id) == "new"

\* prev: SELECT main.items.nodeid, coalesce(reference.items.outcome, 'new')
\*       FROM main.items LEFT JOIN reference.items
PrevOutcome(refTbl, id) ==
    IF HasRow(refTbl, id) THEN RowOf(refTbl, id).outcome ELSE "new"

Prev(tbl, refTbl) == [id \in IdsOf(tbl) |-> PrevOutcome(refTbl, id)]

\* a variant that keeps the items whose outcome is not asked for
KeepsOthers(prev, id, tags) == prev[id] \notin tags

\* the loop over items: kept and deselected
Keeps(prev, id, tags) == prev[id] \in tags

Kept(its, prev, tags) == SelectSeq(its, LAMBDA id : Keeps(prev, id, tags))

Deselected(its, prev, tags) == SelectSeq(its, LAMBDA id : ~Keeps(prev, id, tags))

\* variants of the test: one that always deselects, one that ignores the flag
DeselectsAlways(kept, aif) == TRUE

DeselectsIfKept(kept, aif) == kept # <<>>

\* if kept or not self.all_if_none
Deselects(kept, aif) == kept # <<>> \/ ~aif

\* a variant that carries nothing forward
CarriesNothing(prev, id) == FALSE

\* a variant that carries forward the outcome of every deselected item
CarriesAlways(prev, id) == TRUE

\* updates: UPDATE main.items SET outcome = ? WHERE nodeid = ?, for every
\* deselected item whose prev is not 'new'
CarriesForward(prev, id) == prev[id] # "new"

CarryForward(tbl, desel, prev) ==
    [i \in DOMAIN tbl |->
        IF tbl[i].nodeid \in Range(desel) /\ CarriesForward(prev, tbl[i].nodeid)
        THEN [tbl[i] EXCEPT !.outcome = prev[tbl[i].nodeid]]
        ELSE tbl[i]]

\* ------------------------------------------------------------ ReorderPlugin
\* self.reorder.get(prev[it.nodeid], 99)
Rank(ro, outcome) == IF outcome \in DOMAIN ro THEN ro[outcome] ELSE 99

\* the sort key of an item: its rank, then the negated modification time of
\* its file
SortKey(id, refTbl, ro, mt) == <<Rank(ro, PrevOutcome(refTbl, id)), 0 - mt[FilePath(id)]>>

\* the order of the key tuples
KeyLeq(k, l) == k[1] < l[1] \/ (k[1] = l[1] /\ k[2] <= l[2])

\* a variant that keeps only the items whose outcome is listed
SortItemsListedOnly(its, refTbl, ro, mt) ==
    SelectSeq(its, LAMBDA x : PrevOutcome(refTbl, x) \in DOMAIN ro)

\* items.sort(key=...): a stable sort, each item put behind the items before
\* it whose key is not greater
RECURSIVE SortItems(_, _, _, _)
SortItems(its, refTbl, ro, mt) ==
    IF its = <<>> THEN <<>>
    ELSE LET front == SortItems(SubSeq(its, 1, Len(its) - 1), refTbl, ro, mt)
             x == its[Len(its)]
             before(e) == KeyLeq(SortKey(e, refTbl, ro, mt), SortKey(x, refTbl, ro, mt))
         IN  SelectSeq(front, LAMBDA e : before(e)) \o <<x>>
             \o SelectSeq(front, LAMBDA e : ~before(e))

\* ReorderPlugin.pytest_collection_modifyitems, after the yield: what it
\* makes of the list the other plugins left
ReorderItems(its, refTbl, ro, mt) ==
    IF DOMAIN ro = {} THEN its ELSE SortItems(its, refTbl, ro, mt)

\* RerunPlugin.pytest_collection_modifyitems, and the sort of the
\* ReorderPlugin, which wraps the hook call and so runs after it.  Without
\* reference.items the INSERT raises: the host reports an internal error and
\* goes on to the pytest_sessionfinish hooks
RerunModifyItems ==
    /\ pc = "select"
    /\ LET merged == MergeReference(Live, RefItems)
           prev == Prev(merged, RefItems)
           kept == Kept(items, prev, rerun)
           desel == Deselected(items, prev, rerun)
       IN  IF ~RefHasItems
           THEN UNCHANGED <<stores, meta, items, deselected, notified>>
           ELSE IF rerun = {}
           THEN /\ SetLive(merged)
                /\ items' = ReorderItems(items, RefItems, reorder, mtime)
                /\ UNCHANGED <<meta, deselected, notified>>
           ELSE IF Deselects(kept, all_if_none)
           THEN /\ SetLive(CarryForward(merged, desel, prev))
                /\ items' = ReorderItems(kept, RefItems, reorder, mtime)
                /\ deselected' = desel
                /\ notified' = TRUE
                /\ meta' = [meta EXCEPT ![Cur].desel = Range(desel)]
           ELSE /\ SetLive(merged)
                /\ items' = ReorderItems(items, RefItems, reorder, mtime)
                /\ UNCHANGED <<meta, deselected, notified>>
    /\ pc' = IF RefHasItems THEN "run" ELSE "finish"
    /\ UNCHANGED <<files, requested, rerun, all_if_none, hist, warned, nevents, mode, skipvars, ordervars, emitted, showvars, maxfail, lookups>>

\* the host ends the run loop and calls the pytest_sessionfinish hooks
EndRun ==
    /\ pc = "run"
    /\ pc' = "finish"
    /\ UNCHANGED <<stores, meta, files, requested, rerun, all_if_none, items,
                   deselected, notified, hist, warned, nevents, mode, skipvars, ordervars, emitted, showvars, maxfail, lookups>>

\* variants of the WHERE clause: without the test on the reference outcome,
\* and without the test on the live outcome
BackFillsPassedToo(row, refTbl) ==
    /\ HasRow(refTbl, row.nodeid)
    /\ row.outcome = "pending"

BackFillsAnyLive(row, refTbl) ==
    /\ HasRow(refTbl, row.nodeid)
    /\ RowOf(refTbl, row.nodeid).outcome # "passed"

\* a variant that fills nothing
BackFillsNever(row, refTbl) == FALSE

\* UPDATE main.items SET outcome = reference.items.outcome FROM reference.items
\* WHERE nodeids match AND main outcome = 'pending' AND reference outcome != 'passed'
BackFills(row, refTbl) ==
    /\ HasRow(refTbl, row.nodeid)
    /\ row.outcome = "pending"
    /\ RowOf(refTbl, row.nodeid).outcome # "passed"

BackFill(tbl, refTbl) ==
    [i \in DOMAIN tbl |->
        IF BackFills(tbl[i], refTbl)
        THEN [tbl[i] EXCEPT !.outcome = RowOf(refTbl, tbl[i].nodeid).outcome]
        ELSE tbl[i]]

\* RerunPlugin.pytest_sessionfinish (registered last, so called first), in
\* every mode.  Without reference.items the UPDATE raises, and
\* SessionPlugin.pytest_sessionfinish is not called
RerunSessionFinish ==
    /\ pc = "finish"
    /\ IF RefHasItems
       THEN SetLive(BackFill(Live, RefItems)) /\ pc' = "finish_session"
       ELSE UNCHANGED stores /\ pc' = "error"
    /\ UNCHANGED <<meta, files, requested, rerun, all_if_none, items, deselected,
                   notified, hist, warned, nevents, mode, skipvars, ordervars, emitted, showvars, maxfail, lookups>>

\* -------------------------------------------------------- ShowSessionPlugin
\* pytest_configure with --show-session: the ShowSessionPlugin is registered
\* on the reference and nothing else is; no session file is created
ConfigureShow(opt) ==
    /\ pc \in {"idle", "done", "crashed", "error"}
    /\ opt.reference \in {0, NoSuch} \cup {i \in DOMAIN stores : ~stores[i].deleted}
    /\ shown' = ConfigReference(opt, stores)
    /\ strays' = Opened(strays, ConfigReference(opt, stores))
    /\ testsfailed' = 0
    /\ replayed' = <<>>
    /\ pc' = "show_collect"
    /\ UNCHANGED <<stores, meta, files, requested, rerun, all_if_none, items, deselected,
                   notified, hist, warned, nevents, mode, skipvars, ordervars, emitted, maxfail, lookups>>

\* SELECT * FROM items WHERE collect IS NOT NULL
CollectRecords(tbl) == SelectSeq(tbl, LAMBDA r : r.collect # Null)

\* the records replayed before the assertion on the outcome fails: all of
\* them when it does not
AssertedRecords(recs) ==
    LET bad == {i \in DOMAIN recs : recs[i].outcome \notin {"failed", "skipped"}}
    IN  IF bad = {} THEN recs
        ELSE SubSeq(recs, 1, (CHOOSE i \in bad : \A j \in bad : i <= j) - 1)

\* ShowSessionPlugin.pytest_collection: the collection reports are rebuilt
\* from the records and handed to pytest_collectreport, where the host
\* counts the failed ones in session.testsfailed.  Without an items table
\* (':memory:', or a file that is not there) the query raises
ShowCollection ==
    /\ pc = "show_collect"
    /\ IF shown \in DOMAIN stores
       THEN LET recs == CollectRecords(stores[shown].items)
                done == AssertedRecords(recs)
            IN  /\ replayed' = replayed \o
                       [i \in DOMAIN done |-> CollectEvent(done[i].nodeid, done[i].collect)]
                /\ testsfailed' = Cardinality({i \in DOMAIN done : done[i].collect = "failed"})
                /\ pc' = IF done = recs THEN "show_run" ELSE "error"
       ELSE /\ pc' = "error"
            /\ UNCHANGED <<replayed, testsfailed>>
    /\ UNCHANGED <<stores, meta, files, requested, rerun, all_if_none, items, deselected,
                   notified, hist, warned, nevents, mode, skipvars, ordervars, emitted,
                   shown, strays, maxfail, lookups>>

\* for phase in ('setup', 'call', 'teardown'): if row[phase] is not None
RowReports(row) ==
    (IF row.setup # Null THEN <<PhaseEvent(row.nodeid, row.setup)>> ELSE <<>>)
    \o (IF row.call # Null THEN <<PhaseEvent(row.nodeid, row.call)>> ELSE <<>>)
    \o (IF row.teardown # Null THEN <<PhaseEvent(row.nodeid, row.teardown)>> ELSE <<>>)

\* ShowSessionPlugin._replay_reports: the rows whose nodeid is LIKE '%::%',
\* in rowid order, each between its logstart and its logfinish
RECURSIVE ReplayReports(_)
ReplayReports(tbl) ==
    IF tbl = <<>> THEN <<>>
    ELSE IF Len(Head(tbl).nodeid) < 2 THEN ReplayReports(Tail(tbl))
    ELSE <<StartEvent(Head(tbl).nodeid)>> \o RowReports(Head(tbl))
         \o <<FinishEvent(Head(tbl).nodeid)>> \o ReplayReports(Tail(tbl))

\* a variant that never interrupts
ReplayInterruptsNever(n) == FALSE

\* if session.testsfailed: raise session.Interrupted
ReplayInterrupts(n) == n # 0

\* ShowSessionPlugin.pytest_runtestloop
ShowRunLoop ==
    /\ pc = "show_run"
    /\ IF ReplayInterrupts(testsfailed)
       THEN /\ pc' = "interrupted"
            /\ UNCHANGED replayed
       ELSE /\ pc' = "shown"
            /\ replayed' = replayed \o ReplayReports(stores[shown].items)
    /\ UNCHANGED <<stores, meta, files, requested, rerun, all_if_none, items, deselected,
                   notified, hist, warned, nevents, mode, skipvars, ordervars, emitted,
                   shown, testsfailed, strays, maxfail, lookups>>

\* ----------------------------------------------------- the host's collection
IsPrefix(p, q) == Len(p) <= Len(q) /\ SubSeq(q, 1, Len(p)) = p

\* session._initialpaths: the paths of the command line's arguments (the
\* root directory alone when there is none)
InitialPaths(as) == {FilePath(a) : a \in as}

\* the host visits a node when no argument is given, or when an argument
\* names it, one of its ancestors or one of its descendants
Selected(node, as) ==
    as = {} \/ \E a \in as : IsPrefix(a, node) \/ IsPrefix(node, a)

RECURSIVE Dedup(_)
Dedup(q) ==
    IF q = <<>> THEN <<>>
    ELSE LET front == Dedup(SubSeq(q, 1, Len(q) - 1))
         IN  IF q[Len(q)] \in Range(front) THEN front ELSE Append(front, q[Len(q)])

\* what collecting a collector gives when no plugin interferes: the files of
\* the root directory, or the functions and classes of a file, or the
\* methods of a class
Children(collector, fs, pr, as) ==
    IF collector = <<>>
    THEN SelectSeq(FileOrder, LAMBDA f : f \in fs /\ Selected(f, as))
    ELSE LET below == SelectSeq(HostOrder,
                         LAMBDA t : t \in pr /\ IsPrefix(collector, t) /\ Selected(t, as))
         IN  Dedup([i \in DOMAIN below |-> SubSeq(below[i], 1, Len(collector) + 1)])

\* the items of a full collection, in the order the host yields them
FullCollection(fs, pr, as) ==
    SelectSeq(HostOrder, LAMBDA t : t \in pr /\ FilePath(t) \in fs /\ Selected(t, as))

\* ------------------------------------------- SkipCollection, SkipCollected
\* IdTrie.__init__: self.d, as the set of its dicts, each named by the keys
\* that lead to it from self.d, which is <<>>
IdTrie(nodeids) ==
    {<<>>} \cup UNION {{SubSeq(id, 1, n) : n \in 1..Len(id)} : id \in nodeids}

\* IdTrie.__bool__: bool(self.d)
TrieBool(d) == \E k \in d : Len(k) = 1

\* a variant that wants the walk to end on a dict without keys
TrieWalkToLeaf(d, at, item) ==
    /\ item \in d
    /\ ~\E k \in d : Len(k) = Len(item) + 1 /\ SubSeq(k, 1, Len(item)) = item

\* the loop of IdTrie.__contains__ from the dict at, the segments after it
\* still to follow: d = d.get(segment), False once it is None, and in the
\* end d is not None
RECURSIVE TrieWalk(_, _, _)
TrieWalk(d, at, item) ==
    IF Len(at) = Len(item) THEN TRUE
    ELSE LET next == Append(at, item[Len(at) + 1])
         IN  IF next \in d THEN TrieWalk(d, next, item) ELSE FALSE

\* item in self.trie, for the trie built from the ids t: the segments of the
\* path or id lead to a dict of the trie, whether or not it has keys
InTrie(t, node) == TrieWalk(IdTrie(t), <<>>, node)

\* a variant that filters: the children that are not in the trie are dropped
TrieFirstOnly(t, nodes) == SelectSeq(nodes, LAMBDA n : InTrie(t, n))

\* report.result.sort(key=lambda node: node.path in self.trie, reverse=True)
\* (a stable sort, also when reversed)
TrieFirst(t, nodes) ==
    SelectSeq(nodes, LAMBDA n : InTrie(t, n)) \o SelectSeq(nodes, LAMBDA n : ~InTrie(t, n))

\* a variant that drops the classes that are not in the trie
KeepsNodeInTrieOnly(t, n, as) == InTrie(t, n) \/ FilePath(n) \in InitialPaths(as)

\* node.nodeid in self.trie or session.isinitpath(node.path)
\* or isinstance(node, pytest.Collector)
KeepsNode(t, n, as) ==
    InTrie(t, n) \/ FilePath(n) \in InitialPaths(as) \/ n \notin TestIds

\* a variant that starts filtering before anything in the trie was found
LeavesUntouchedNever(t, found, nodes) == FALSE

\* if not self.found_failure: if not any(x.nodeid in self.trie for x in nodes)
LeavesUntouched(t, found, nodes) ==
    ~found /\ ~\E i \in DOMAIN nodes : InTrie(t, nodes[i])

\* SkipCollection.pytest_make_collect_report, after the yield: the result
\* it leaves in the report, and found_failure
SkipCollectionReport(t, found, collector, nodes, as) ==
    IF t = {} THEN [result |-> nodes, found |-> found]
    ELSE IF collector = <<>> \/ collector \in DirIds
    THEN [result |-> TrieFirst(t, nodes), found |-> found]
    ELSE IF collector \in FileIds /\ InTrie(t, collector)
    THEN IF LeavesUntouched(t, found, nodes)
         THEN [result |-> nodes, found |-> found]
         ELSE [result |-> SelectSeq(nodes, LAMBDA n : KeepsNode(t, n, as)), found |-> TRUE]
    ELSE [result |-> nodes, found |-> found]

\* a variant that does not count
CountsSkippedNever(n) == n

\* self.parent.skipped_paths += 1
CountsSkipped(n) == n + 1

\* SkipCollected.pytest_make_collect_report (registered when found_failure
\* is set) answers for a file that is not in the trie
ShortCircuits(t, found, collector) ==
    found /\ collector \in FileIds /\ ~InTrie(t, collector)

\* the pytest_make_collect_report hook call for the collector the host
\* visits next: SkipCollected's report or the host's own, then the wrapper
MakeCollectReport ==
    /\ pc = "collect"
    /\ todo # <<>>
    /\ Head(todo) \notin TestIds
    /\ LET collector == Head(todo)
           short == ShortCircuits(trie, found_failure, collector)
           nodes == IF short THEN <<>> ELSE Children(collector, files, present, args)
           report == SkipCollectionReport(trie, found_failure, collector, nodes, args)
       IN  /\ todo' = report.result \o Tail(todo)
           /\ found_failure' = report.found
           /\ skipped_paths' = IF short THEN CountsSkipped(skipped_paths) ELSE skipped_paths
    /\ UNCHANGED <<stores, meta, pc, files, requested, rerun, all_if_none, items,
                   deselected, notified, hist, warned, nevents, mode, present, args,
                   trie, collected, ordervars, emitted, showvars, maxfail, lookups>>

\* the host yields the item it visits next
YieldItem ==
    /\ pc = "collect"
    /\ todo # <<>>
    /\ Head(todo) \in TestIds
    /\ collected' = Append(collected, Head(todo))
    /\ todo' = Tail(todo)
    /\ UNCHANGED <<stores, meta, pc, files, requested, rerun, all_if_none, items,
                   deselected, notified, hist, warned, nevents, mode, present, args,
                   trie, found_failure, skipped_paths, ordervars, emitted, showvars, maxfail, lookups>>

\* the process is killed during collection: no further hook runs, and the
\* session file stays as it is, never marked complete
Crash ==
    /\ pc = "collect"
    /\ pc' = "crashed"
    /\ items' = <<>>
    /\ deselected' = <<>>
    /\ notified' = FALSE
    /\ hist' = NoHist
    /\ warned' = {}
    /\ UNCHANGED <<stores, meta, files, requested, rerun, all_if_none, nevents, mode, skipvars, ordervars, emitted, showvars, maxfail, lookups>>

\* ------------------------------------------------------- the specification
\* files last modified at the same time
SameAge == [f \in FileIds |-> 1]

Init ==
    /\ stores = <<>>
    /\ meta = <<>>
    /\ pc = "idle"
    /\ files = FileIds
    /\ requested = {}
    /\ rerun = {}
    /\ all_if_none = TRUE
    /\ items = <<>>
    /\ deselected = <<>>
    /\ notified = FALSE
    /\ hist = NoHist
    /\ warned = {}
    /\ nevents = 0
    /\ mode = "run"
    /\ present = {}
    /\ args = {}
    /\ trie = {}
    /\ found_failure = FALSE
    /\ skipped_paths = 0
    /\ todo = <<>>
    /\ collected = <<>>
    /\ reorder = <<>>
    /\ mtime = SameAge
    /\ emitted = <<>>
    /\ shown = 0
    /\ testsfailed = 0
    /\ replayed = <<>>
    /\ strays = {}
    /\ maxfail = 0
    /\ lookups = <<>>

\* the options of a command line cl with --reference r in mode m
Options(cl, r, m) ==
    [reference |-> r, rerun |-> cl.rerun, lf |-> cl.lf, lfnf |-> cl.lfnf,
     sw |-> cl.sw, sw_skip |-> cl.sw_skip, sw_reset |-> cl.sw_reset, mode |-> m,
     args |-> {}, order |-> <<>>, ff |-> FALSE, nf |-> FALSE, maxfail |-> 0]

\* what the hooks of a configured session do
SessionSteps ==
    \/ \E id \in FileIds, raw \in RawOutcomes : CollectReport(id, raw)
    \/ RerunModifyItems
    \/ \E id \in TestIds, r \in HostReports : LogReport(id, r[1], r[2], r[3])
    \/ \E when \in {"config", "collect", "runtest"}, id \in Range(items) \cup {<<>>} :
          WarningRecorded(when, id)
    \/ EndRun
    \/ RerunSessionFinish
    \/ \E lim \in SessionLimits : SessionFinish(lim)
    \/ Crash

\* plain runs, one after another, each with an implicit or an existing
\* explicit reference
Next ==
    \/ \E cl \in CommandLines, r \in 0..MaxSessions, tree \in Trees :
          Len(stores) < MaxSessions /\ Configure(Options(cl, r, "run"), tree)
    \/ \E its \in Candidates(files) : SessionModifyItems(its)
    \/ \E id \in TestIds : LogStart(id)
    \/ SessionSteps

Spec == Init /\ [][Next]_vars

\* ------------------------------------------------- one session in a directory
\* the tables of the files found in the directory
LeftTable ==
    << NewRow(<<"a.py", "t1">>, "failed", Null), NewRow(<<"b.py", "t1">>, "passed", Null) >>

CrashedTable == << NewRow(<<"a.py", "t1">>, "pending", Null) >>

\* the files found: a complete session, one that crashed after collection,
\* and a hard link to a complete session under another name ('saved')
DirEntries ==
    { [version |-> 5, deleted |-> FALSE, named |-> TRUE, items |-> LeftTable],
      [version |-> 1, deleted |-> FALSE, named |-> TRUE, items |-> CrashedTable],
      [version |-> 5, deleted |-> FALSE, named |-> FALSE, items |-> LeftTable] }

Dirs == UNION {[1..n -> DirEntries] : n \in 0..MaxDir}

\* what is known of the session that left a file
LeftMeta(e) ==
    [ref |-> 0, collected |-> IdsOf(e.items), desel |-> {},
     final |-> IF e.version = 5 THEN IdsOf(e.items) ELSE {}]

DirInit ==
    /\ stores \in Dirs
    /\ meta = [i \in DOMAIN stores |-> LeftMeta(stores[i])]
    /\ pc = "idle"
    /\ files = FileIds
    /\ requested = {}
    /\ rerun = {}
    /\ all_if_none = TRUE
    /\ items = <<>>
    /\ deselected = <<>>
    /\ notified = FALSE
    /\ hist = NoHist
    /\ warned = {}
    /\ nevents = 0
    /\ mode = "run"
    /\ present = {}
    /\ args = {}
    /\ trie = {}
    /\ found_failure = FALSE
    /\ skipped_paths = 0
    /\ todo = <<>>
    /\ collected = <<>>
    /\ reorder = <<>>
    /\ mtime = SameAge
    /\ emitted = <<>>
    /\ shown = 0
    /\ testsfailed = 0
    /\ replayed = <<>>
    /\ strays = {}
    /\ maxfail = 0
    /\ lookups = <<>>

\* one session, in any mode, with an implicit reference, an explicit one that
\* is there or one that is not; the host may hand over a list with duplicates
DirNext ==
    \/ \E cl \in CommandLines, r \in {NoSuch} \cup 0..MaxDir, tree \in Trees, m \in Modes :
          pc = "idle" /\ Configure(Options(cl, r, m), tree)
    \/ \E its \in Candidates(files) \cup KeptDuplicates(files) : SessionModifyItems(its)
    \/ SessionSteps

DirSpec == DirInit /\ [][DirNext]_vars

\* ------------------------------------------- one session, report by report
\* the reports the host can deliver for a phase of an item: when, raw
\* outcome, wasxfail
Phases == {"setup", "call", "teardown"}
AllReports == Phases \X RawOutcomes \X BOOLEAN

\* the command line without any option
PlainRun ==
    [reference |-> 0, rerun |-> <<>>, lf |-> FALSE, lfnf |-> "all", sw |-> FALSE,
     sw_skip |-> FALSE, sw_reset |-> FALSE, mode |-> "run", args |-> {},
     order |-> <<>>, ff |-> FALSE, nf |-> FALSE, maxfail |-> 0]

\* a first session in an empty directory, with every report the host can
\* deliver for its items, and warnings from every context, for one of its
\* items, for a test that is not among them, or without a node id
RunNext ==
    \/ stores = <<>> /\ Configure(PlainRun, FileIds)
    \/ \E its \in Candidates(files) : SessionModifyItems(its)
    \/ RerunModifyItems
    \/ \E id \in TestIds, r \in AllReports : LogReport(id, r[1], r[2], r[3])
    \/ \E when \in {"config", "collect", "runtest"}, id \in TestIds \cup {<<>>} :
          WarningRecorded(when, id)
    \/ EndRun
    \/ RerunSessionFinish
    \/ \E lim \in SessionLimits : SessionFinish(lim)

RunSpec == Init /\ [][RunNext]_vars

\* --------------------------------------------------- one session, reordered
\* a --rerun-order of a hundred and one categories, new being the last
LongOrder == [i \in 1..100 |-> "failed"] \o <<"new">>

\* the ordering options: none, --ff, --nf, and --rerun-order with new before
\* failed, with a category given twice and an empty piece, and the long one
OrderOptions ==
    { [order |-> <<>>, ff |-> FALSE, nf |-> FALSE],
      [order |-> <<>>, ff |-> TRUE, nf |-> FALSE],
      [order |-> <<>>, ff |-> FALSE, nf |-> TRUE],
      [order |-> <<"new", "failed">>, ff |-> TRUE, nf |-> FALSE],
      [order |-> <<"failed", "", "passed", "failed">>, ff |-> FALSE, nf |-> FALSE],
      [order |-> LongOrder, ff |-> FALSE, nf |-> FALSE] }

\* the modification times of the files
Ages == [FileIds -> 1..2]

\* the reference tables: a failure in each file; the test of b.py failed and
\* one of a.py passed
OrderTables ==
    { << NewRow(<<"a.py", "t1">>, "failed", Null), NewRow(<<"b.py", "t1">>, "failed", Null) >>,
      << NewRow(<<"a.py", "t1">>, "passed", Null), NewRow(<<"b.py", "t1">>, "failed", Null) >> }

OrderInit ==
    /\ \E tbl \in OrderTables :
          stores = << [version |-> 5, deleted |-> FALSE, named |-> TRUE, items |-> tbl] >>
    /\ meta = [i \in DOMAIN stores |-> LeftMeta(stores[i])]
    /\ pc = "idle"
    /\ files = FileIds
    /\ requested = {}
    /\ rerun = {}
    /\ all_if_none = TRUE
    /\ items = <<>>
    /\ deselected = <<>>
    /\ notified = FALSE
    /\ hist = NoHist
    /\ warned = {}
    /\ nevents = 0
    /\ mode = "run"
    /\ present = {}
    /\ args = {}
    /\ trie = {}
    /\ found_failure = FALSE
    /\ skipped_paths = 0
    /\ todo = <<>>
    /\ collected = <<>>
    /\ reorder = <<>>
    /\ mtime \in Ages
    /\ emitted = <<>>
    /\ shown = 0
    /\ testsfailed = 0
    /\ replayed = <<>>
    /\ strays = {}
    /\ maxfail = 0
    /\ lookups = <<>>

\* a plain run against the session found, with any of the ordering options
OrderNext ==
    \/ \E cl \in CommandLines, oo \in OrderOptions :
          /\ pc = "idle"
          /\ Configure([Options(cl, 0, "run") EXCEPT !.order = oo.order, !.ff = oo.ff,
                                                    !.nf = oo.nf], FileIds)
    \/ \E its \in Candidates(files) : SessionModifyItems(its)
    \/ RerunModifyItems
    \/ EndRun
    \/ RerunSessionFinish
    \/ \E lim \in SessionLimits : SessionFinish(lim)

OrderSpec == OrderInit /\ [][OrderNext]_vars

\* ------------------------------------------- sessions, then a replay of one
\* the report a text is the text of
ReportOf(text) == CHOOSE r \in AllReports : ReportJson(r[1], r[2], r[3]) = text

PhaseIndex(when) == IF when = "setup" THEN 1 ELSE IF when = "call" THEN 2 ELSE 3

\* the phase results among the events
PhaseEvents(evs) == SelectSeq(evs, LAMBDA e : e[1] = "logreport")

\* the host's run loop: no item runs after a collection error; the items run
\* in the order of the candidate list, and the phases of an item are
\* reported in the order setup, call, teardown, each once at most
HostDelivers(id, when) ==
    /\ \A i \in DOMAIN emitted : emitted[i] # CollectEvent(emitted[i][2], "failed")
    /\ id \in Range(items)
    /\ LET ph == PhaseEvents(emitted)
           last == ph[Len(ph)]
           at(x) == CHOOSE i \in DOMAIN items : items[i] = x
       IN  ph # <<>>
           => \/ id = last[2] /\ PhaseIndex(when) > PhaseIndex(ReportOf(last[3])[1])
              \/ at(id) > at(last[2])

\* the host's collection: a file that is there is collected once
HostCollects(id) ==
    /\ id \in files
    /\ \A i \in DOMAIN emitted : ~(emitted[i][1] = "collectreport" /\ emitted[i][2] = id)

\* the reports of the replayed sessions' items
ShownReports ==
    {<<"setup", "passed", FALSE>>, <<"call", "passed", FALSE>>, <<"call", "failed", FALSE>>}

\* sessions one after another, with or without --rerun, without ordering
\* option or with --nf, all kept; and then a --show-session run on the
\* newest complete session, on the one --reference names or on a file that
\* is not there; no session is run after the replay
ShowNext ==
    \/ \E cl \in CommandLines, nf \in BOOLEAN, tree \in Trees :
          /\ Len(stores) < MaxSessions
          /\ pc \in {"idle", "done"}
          /\ ~cl.lf
          /\ Configure([Options(cl, 0, "run") EXCEPT !.nf = nf], tree)
    \/ \E id \in FileIds, raw \in RawOutcomes : HostCollects(id) /\ CollectReport(id, raw)
    \/ \E its \in Candidates(files) : SessionModifyItems(its)
    \/ RerunModifyItems
    \/ \E id \in TestIds, r \in ShownReports :
          HostDelivers(id, r[1]) /\ LogReport(id, r[1], r[2], r[3])
    \/ EndRun
    \/ RerunSessionFinish
    \/ SessionFinish(100)
    \/ \E r \in {NoSuch} \cup 0..MaxSessions : pc = "done" /\ ConfigureShow([reference |-> r])
    \/ ShowCollection
    \/ ShowRunLoop

ShowSpec == Init /\ [][ShowNext]_vars

\* ------------------------------------- one session, collector by collector
\* the reference tables: two failures in a.py; a failing method of the
\* class in a.py; a failure in b.py; a failure in each file
TwoFailures ==
    << NewRow(<<"a.py", "t1">>, "failed", Null), NewRow(<<"a.py", "t2">>, "failed", Null),
       NewRow(<<"b.py", "t1">>, "passed", Null) >>

RefTables ==
    { TwoFailures,
      << NewRow(<<"a.py", "t1">>, "passed", Null), NewRow(<<"a.py", "C", "m">>, "failed", Null),
         NewRow(<<"b.py", "t1">>, "passed", Null) >>,
      << NewRow(<<"a.py", "t1">>, "passed", Null), NewRow(<<"b.py", "t1">>, "failed", Null) >>,
      << NewRow(<<"a.py", "t1">>, "failed", Null), NewRow(<<"b.py", "t1">>, "failed", Null) >> }

\* the file trees: the files that exist with the tests that exist in them
TestTrees ==
    {fs \cup ts : fs \in SUBSET FileIds, ts \in SUBSET TestIds} \ 
    {tree \in {fs \cup ts : fs \in SUBSET FileIds, ts \in SUBSET TestIds} :
        \E t \in tree \cap TestIds : FilePath(t) \notin tree}

\* the command line's arguments: none, a file, a test, two tests
ArgSets ==
    {{}, {<<"a.py">>}, {<<"a.py", "t2">>}, {<<"a.py", "t1">>, <<"a.py", "t2">>}}

SkipInit ==
    /\ \E tbl \in RefTables :
          stores = << [version |-> 5, deleted |-> FALSE, named |-> TRUE, items |-> tbl] >>
    /\ meta = [i \in DOMAIN stores |-> LeftMeta(stores[i])]
    /\ pc = "idle"
    /\ files = FileIds
    /\ requested = {}
    /\ rerun = {}
    /\ all_if_none = TRUE
    /\ items = <<>>
    /\ deselected = <<>>
    /\ notified = FALSE
    /\ hist = NoHist
    /\ warned = {}
    /\ nevents = 0
    /\ mode = "run"
    /\ present = {}
    /\ args = {}
    /\ trie = {}
    /\ found_failure = FALSE
    /\ skipped_paths = 0
    /\ todo = <<>>
    /\ collected = <<>>
    /\ reorder = <<>>
    /\ mtime = SameAge
    /\ emitted = <<>>
    /\ shown = 0
    /\ testsfailed = 0
    /\ replayed = <<>>
    /\ strays = {}
    /\ maxfail = 0
    /\ lookups = <<>>

\* a plain run against the session found, the host's traversal followed
\* collector by collector; the candidate list is what the traversal yielded
SkipNext ==
    \/ \E cl \in CommandLines, tree \in TestTrees, as \in ArgSets :
          pc = "idle" /\ Configure([Options(cl, 0, "run") EXCEPT !.args = as], tree)
    \/ MakeCollectReport
    \/ YieldItem
    \/ todo = <<>> /\ SessionModifyItems(collected)
    \/ RerunModifyItems
    \/ EndRun
    \/ RerunSessionFinish
    \/ \E lim \in SessionLimits : SessionFinish(lim)

SkipSpec == SkipInit /\ [][SkipNext]_vars

\* ------------------------------------------ sessions that stop on failures
\* sessions of a stepwise chain
MaxSteps == 3

\* the values of -x / --maxfail the chain is run with
StopAfter == {1, 2}

\* --rerun failed,pending
StepwiseLine ==
    [rerun |-> <<"failed", "pending">>, lf |-> FALSE, lfnf |-> "all", sw |-> FALSE,
     sw_skip |-> FALSE, sw_reset |-> FALSE]

\* the one report of an item that decides its outcome: its call passed or
\* failed, or its setup failed
StepReports ==
    {<<"call", "passed", FALSE>>, <<"call", "failed", FALSE>>, <<"setup", "failed", FALSE>>}

\* the row of a test that ran and whose report r gave its outcome
RanRow(id, r) ==
    UpdateBlob(NewRow(id, Normalize(r[2], r[3], r[1]), Null), r[1], ReportJson(r[1], r[2], r[3]))

\* the stores a session of the chain has left, when a.py held t2 alone and
\* it failed, and when t1 passed and the setup of t2 failed
StepTables ==
    { << RanRow(<<"a.py", "t2">>, <<"call", "failed", FALSE>>) >>,
      << RanRow(<<"a.py", "t1">>, <<"call", "passed", FALSE>>),
         RanRow(<<"a.py", "t2">>, <<"setup", "failed", FALSE>>) >> }

StepInit ==
    /\ \/ stores = <<>>
       \/ \E tbl \in StepTables :
             stores = << [version |-> 5, deleted |-> FALSE, named |-> TRUE, items |-> tbl] >>
    /\ meta = [i \in DOMAIN stores |-> LeftMeta(stores[i])]
    /\ pc = "idle"
    /\ files = FileIds
    /\ requested = {}
    /\ rerun = {}
    /\ all_if_none = TRUE
    /\ items = <<>>
    /\ deselected = <<>>
    /\ notified = FALSE
    /\ hist = NoHist
    /\ warned = {}
    /\ nevents = 0
    /\ mode = "run"
    /\ present = {}
    /\ args = {}
    /\ trie = {}
    /\ found_failure = FALSE
    /\ skipped_paths = 0
    /\ todo = <<>>
    /\ collected = <<>>
    /\ reorder = <<>>
    /\ mtime = SameAge
    /\ emitted = <<>>
    /\ shown = 0
    /\ testsfailed = 0
    /\ replayed = <<>>
    /\ strays = {}
    /\ maxfail \in StopAfter
    /\ lookups = <<>>

\* session.testsfailed of the run: the items whose report was a failed one
StepFailures ==
    Cardinality({id \in Range(items) : hist[id] # <<>> /\ hist[id][1] # "passed"})

\* the host's run loop: the items run in the order of the list, and none
\* runs once maxfail reports have failed
HostRuns(id) ==
    /\ maxfail = 0 \/ StepFailures < maxfail
    /\ \E i \in DOMAIN items :
          /\ items[i] = id
          /\ hist[id] = <<>>
          /\ \A j \in 1..(i - 1) : hist[items[j]] # <<>>

\* the run loop ends when every item has run or maxfail reports have failed
HostStops ==
    \/ maxfail # 0 /\ StepFailures >= maxfail
    \/ \A i \in DOMAIN items : hist[items[i]] # <<>>

\* a chain of sessions, each run with --rerun failed,pending and the same
\* --maxfail, over the tests the host finds there
StepNext ==
    \/ \E tree \in Trees :
          /\ Len(stores) < MaxSteps
          /\ pc \in {"idle", "done"}
          /\ Configure([Options(StepwiseLine, 0, "run") EXCEPT !.maxfail = maxfail], tree)
    \/ \E its \in Candidates(files) : SessionModifyItems(its)
    \/ RerunModifyItems
    \/ \E id \in TestIds, r \in StepReports : HostRuns(id) /\ LogReport(id, r[1], r[2], r[3])
    \/ HostStops /\ EndRun
    \/ RerunSessionFinish
    \/ SessionFinish(100)

StepSpec == StepInit /\ [][StepNext]_vars

\* ------------------------------------------------- the trie, test by test
\* the node ids a trie is built from: tests of files at the root, a method
\* of a class, a test of a file in a directory
TrieIds ==
    { <<"a.py", "t1">>, <<"a.py", "C", "m">>, <<"b.py", "t1">>,
      <<"d", "c.py", "t1">>, <<"d", "e", "f.py", "t1">> }

\* what is looked up: the root itself, directories, files, classes, tests,
\* and paths and ids no stored id passes through
Queries ==
    IdTrie(TrieIds) \cup
    { <<"c.py">>, <<"a.py", "t2">>, <<"a.py", "t1", "x">>, <<"d", "x.py">>,
      <<"e">>, <<"d", "c.py", "t1", "x">>, <<"t1">> }

TrieInit ==
    /\ stores = <<>>
    /\ meta = <<>>
    /\ pc = "idle"
    /\ files = {}
    /\ requested = {}
    /\ rerun = {}
    /\ all_if_none = TRUE
    /\ items = <<>>
    /\ deselected = <<>>
    /\ notified = FALSE
    /\ hist = NoHist
    /\ warned = {}
    /\ nevents = 0
    /\ mode = "run"
    /\ present = {}
    /\ args = {}
    /\ trie \in SUBSET TrieIds
    /\ found_failure = FALSE
    /\ skipped_paths = 0
    /\ todo = <<>>
    /\ collected = <<>>
    /\ reorder = <<>>
    /\ mtime = SameAge
    /\ emitted = <<>>
    /\ shown = 0
    /\ testsfailed = 0
    /\ replayed = <<>>
    /\ strays = {}
    /\ maxfail = 0
    /\ lookups = <<>>

\* what the host finds in the root directory and in d, in some order
HostEntries(collector) ==
    IF collector = <<>>
    THEN {<<"a.py">>, <<"b.py">>, <<"c.py">>, <<"d">>, <<"e">>}
    ELSE {<<"d", "c.py">>, <<"d", "x.py">>, <<"d", "y.py">>, <<"d", "e">>}

\* the children a report can list: entries of the directory, none twice
MaxEntries == 4
Listings(collector) ==
    {q \in UNION {[1..n -> HostEntries(collector)] : n \in 0..MaxEntries} :
        \A i, j \in DOMAIN q : i # j => q[i] # q[j]}

\* `item in trie`, and bool(trie) with it; one call is followed per trie
TrieLookup(item) ==
    /\ lookups = <<>>
    /\ lookups' = << [call |-> "contains", item |-> item, found |-> InTrie(trie, item),
                      truthy |-> TrieBool(IdTrie(trie))] >>
    /\ UNCHANGED <<stores, meta, pc, files, requested, rerun, all_if_none, items,
                   deselected, notified, hist, warned, nevents, mode, skipvars,
                   ordervars, emitted, showvars, maxfail>>

\* the wrapper around the host's report for the session or a directory; the
\* skipper exists only when its trie is truthy
TrieCollect(collector, nodes) ==
    /\ TrieBool(IdTrie(trie))
    /\ lookups = <<>>
    /\ lookups' = << [call |-> "report", collector |-> collector, nodes |-> nodes,
                      result |-> SkipCollectionReport(trie, found_failure, collector,
                                                      nodes, args).result] >>
    /\ UNCHANGED <<stores, meta, pc, files, requested, rerun, all_if_none, items,
                   deselected, notified, hist, warned, nevents, mode, skipvars,
                   ordervars, emitted, showvars, maxfail>>

TrieNext ==
    \/ \E item \in Queries : TrieLookup(item)
    \/ \E collector \in {<<>>, <<"d">>} : \E nodes \in Listings(collector) :
          TrieCollect(collector, nodes)

TrieSpec == TrieInit /\ [][TrieNext]_vars

\* ------------------------------------------------------------------ claims
\* the outcome a node has in the reference of the running session ('new'
\* when the reference has no row for it)
RefOutcome(id) ==
    IF \E i \in DOMAIN RefItems : RefItems[i].nodeid = id
    THEN RefItems[CHOOSE i \in DOMAIN RefItems : RefItems[i].nodeid = id].outcome
    ELSE "new"

LiveOutcome(id) == RowOf(Live, id).outcome

\* the step in which RerunPlugin.pytest_collection_modifyitems runs
SelectionStep == pc = "select" /\ pc' = "run"

\* the step in which RerunPlugin.pytest_sessionfinish runs
BackFillStep == pc = "finish" /\ pc' = "finish_session"

\* the first outcome of h that is not 'passed'; 'passed' when all are;
\* 'pending' when h is empty
RECURSIVE FirstNotPassed(_)
FirstNotPassed(h) ==
    IF h = <<>> THEN "pending"
    ELSE IF Head(h) # "passed" THEN Head(h)
    ELSE IF Tail(h) = <<>> THEN "passed"
    ELSE FirstNotPassed(Tail(h))

\* C1: for a collected node that is run (its record starts pending) and gets
\* no warning, the stored outcome after any sequence of phase reports is the
\* normalized outcome of the first report that is not passed, passed when all
\* reports are passed, pending when there is none.
C1_FirstNotPassedWins ==
    pc \in {"run", "finish"} =>
        \A id \in Range(items) \ warned :
            HasRow(Live, id) /\ LiveOutcome(id) = FirstNotPassed(hist[id])

\* a node whose first report failed and whose second report passed
C1_Witness ==
    /\ pc = "run"
    /\ \E id \in Range(items) \ warned :
          /\ Len(hist[id]) = 2
          /\ hist[id][1] \in {"failed", "error", "xfailed"}
          /\ hist[id][2] = "passed"
          /\ LiveOutcome(id) = hist[id][1]

\* C2 as claimed: within a session, a stored outcome other than pending or
\* passed is changed by no operation but a warning record, which sets it to
\* warnings.
C2_OnlyWarningsOverwrite ==
    [][\A id \in NodeIds :
          (Cur' = Cur /\ Cur > 0 /\ HasRow(Live, id)
             /\ LiveOutcome(id) \notin {"pending", "passed"})
          => /\ HasRow(Live', id)
             /\ \/ RowOf(Live', id).outcome = LiveOutcome(id)
                \/ /\ RowOf(Live', id).outcome = "warnings"
                   /\ \E when \in {"runtest"} : WarningRecorded(when, id)]_vars

\* C2 as amended: within a session, a stored outcome other than pending or
\* passed is changed by no phase report, carry-forward, back-fill or merge;
\* it is overwritten only by a warning record (with warnings) or by a
\* collection record for the same id (with failed or skipped).
C2_OnlyWarningsAndCollectOverwrite ==
    [][\A id \in NodeIds :
          (Cur' = Cur /\ Cur > 0 /\ HasRow(Live, id)
             /\ LiveOutcome(id) \notin {"pending", "passed"})
          => /\ HasRow(Live', id)
             /\ \/ RowOf(Live', id).outcome = LiveOutcome(id)
                \/ /\ RowOf(Live', id).outcome = "warnings"
                   /\ \E when \in {"runtest"} : WarningRecorded(when, id)
                \/ /\ RowOf(Live', id).outcome \in {"failed", "skipped"}
                   /\ \E raw \in {"failed", "skipped"} : CollectReport(id, raw)]_vars

\* a node that an earlier report made error, still error after a later
\* report, a selection and a back-fill
C2_Witness ==
    /\ pc = "finish_session"
    /\ \E id \in Range(items) \ warned :
          /\ Len(hist[id]) = 2
          /\ hist[id][1] = "error"
          /\ hist[id][2] # "error"
          /\ LiveOutcome(id) = "error"

\* C3: when categories are asked for and some candidate's reference outcome
\* is among them, selection leaves exactly the candidates whose reference
\* outcome is among them, in their order, and reports every other candidate
\* as deselected.
C3_SelectionPartitions ==
    [][(SelectionStep /\ requested # {}
          /\ \E i \in DOMAIN items : RefOutcome(items[i]) \in requested)
       => /\ items' = SelectSeq(items, LAMBDA id : RefOutcome(id) \in requested)
          /\ deselected' = SelectSeq(items, LAMBDA id : RefOutcome(id) \notin requested)
          /\ notified']_vars

\* a selection that kept two candidates and deselected another
C3_Witness ==
    /\ pc = "run"
    /\ notified
    /\ Len(items) = 2
    /\ Len(deselected) = 1
    /\ \A i \in DOMAIN items : RefOutcome(items[i]) \in requested

\* session s reaches session b through references, every session on the way
\* (b excluded) being complete and not having collected id
RECURSIVE NotCollectedSince(_, _, _)
NotCollectedSince(s, b, id) ==
    IF s = b THEN TRUE
    ELSE /\ s # 0
         /\ stores[s].version = 5
         /\ id \notin meta[s].collected
         /\ NotCollectedSince(meta[s].ref, b, id)

C5_BackFill ==
    [][BackFillStep
       => /\ DOMAIN Live' = DOMAIN Live
          /\ \A i \in DOMAIN Live :
                LET id == Live[i].nodeid
                IN  IF Live[i].outcome # "pending" THEN Live'[i] = Live[i]
                    ELSE /\ Live'[i].nodeid = id
                         /\ Live'[i].outcome =
                               IF RefOutcome(id) \in {"new", "passed"}
                               THEN "pending" ELSE RefOutcome(id)]_vars

\* a selected test that got no report, back-filled to the reference's failed,
\* beside one that the reference has as passed, left pending
C5_Witness ==
    /\ pc = "finish_session"
    /\ \E id \in Range(items) \ warned :
          hist[id] = <<>> /\ RefOutcome(id) = "failed" /\ LiveOutcome(id) = "failed"
    /\ \E id \in Range(items) \ warned :
          hist[id] = <<>> /\ RefOutcome(id) = "passed" /\ LiveOutcome(id) = "pending"

\* C6 as claimed: in the store of a completed session, every collected node
\* whose reference outcome is passed and that got no report in the session
\* is pending.
C6_PassedNeverWithoutRun ==
    pc = "done" =>
        \A id \in (meta[Cur].collected \cap TestIds) \ warned :
            (RefOutcome(id) = "passed" /\ hist[id] = <<>>)
            => LiveOutcome(id) = "pending"

\* C6 as amended: in the store of a completed session, every collected node
\* that stayed selected, whose reference outcome is passed and that got no
\* report and no warning in the session, is pending.
C6_SelectedPassedNeverWithoutRun ==
    pc = "done" =>
        \A id \in Range(items) \ warned :
            (RefOutcome(id) = "passed" /\ hist[id] = <<>>)
            => LiveOutcome(id) = "pending"

\* a completed session with a selected test, passed in the reference, that
\* did not run and is pending
C6_Witness ==
    /\ pc = "done"
    /\ \E id \in Range(items) \ warned :
          RefOutcome(id) = "passed" /\ hist[id] = <<>> /\ LiveOutcome(id) = "pending"

\* C7: after a selection that deselects candidates, every deselected
\* candidate has a live record, with its reference outcome when that is not
\* new, pending when it is; and every id deselected in a session has a record
\* in that session's store, so that no session using the store as reference
\* classifies it as new.
C7_DeselectedCarriedForward ==
    /\ (pc \in {"run", "finish", "finish_session", "done"} /\ notified)
       => \A id \in Range(deselected) :
             /\ HasRow(Live, id)
             /\ LiveOutcome(id) =
                   IF RefOutcome(id) = "new" THEN "pending" ELSE RefOutcome(id)
    /\ \A s \in DOMAIN stores :
          (s # Cur \/ pc \in {"run", "finish", "finish_session", "done"})
          => \A id \in meta[s].desel : HasRow(stores[s].items, id)
    /\ (pc = "select" /\ Ref # 0)
       => \A id \in meta[Ref].desel :
             Prev(MergeReference(Live, RefItems), RefItems)[id] # "new"

\* a selection that deselected a test the reference has as passed and a test
\* that is new
C7_Witness ==
    /\ pc = "run"
    /\ notified
    /\ \E id \in Range(deselected) : RefOutcome(id) = "passed" /\ LiveOutcome(id) = "passed"
    /\ \E id \in Range(deselected) : RefOutcome(id) = "new" /\ LiveOutcome(id) = "pending"

\* no candidate's reference outcome is among the categories asked for
NoneMatches ==
    /\ requested # {}
    /\ \A i \in DOMAIN items : RefOutcome(items[i]) \notin requested

\* C8 as claimed: if no candidate's reference outcome is among the
\* categories asked for and the select-all-if-none flag is false, every
\* candidate stays selected and none is deselected.
C8_FlagOffSelectsAll ==
    [][(SelectionStep /\ NoneMatches /\ ~all_if_none)
       => items' = items /\ deselected' = <<>> /\ ~notified']_vars

\* C8 as amended: if no candidate's reference outcome is among the
\* categories asked for and the select-all-if-none flag is true, every
\* candidate stays selected and none is deselected.
C8_FlagOnSelectsAll ==
    [][(SelectionStep /\ NoneMatches /\ all_if_none)
       => items' = items /\ deselected' = <<>> /\ ~notified']_vars

\* categories were asked for, none matched, the flag is on and both
\* candidates are still selected
C8_Witness ==
    /\ pc = "run"
    /\ NoneMatches
    /\ all_if_none
    /\ Len(items) = 2
    /\ ~notified

\* C9: if no candidate's reference outcome is among the categories asked
\* for, then with the select-all-if-none setting on every candidate stays
\* selected, nothing is deselected and the live store gets the merged
\* reference rows only (no carry-forward write); with the setting off every
\* candidate is deselected and the candidate list becomes empty.
C9_NoneMatches ==
    [][(SelectionStep /\ NoneMatches)
       => IF all_if_none
          THEN /\ items' = items
               /\ deselected' = <<>>
               /\ ~notified'
               /\ \A i \in DOMAIN Live : Live'[i] = Live[i]
               /\ \A i \in DOMAIN Live' \ DOMAIN Live :
                     \E j \in DOMAIN RefItems : Live'[i] = RefItems[j]
          ELSE /\ items' = <<>>
               /\ deselected' = items
               /\ notified']_vars

\* with the setting off, a selection that deselected every candidate, of
\* which the reference has one as passed
C9_Witness ==
    /\ pc = "run"
    /\ ~all_if_none
    /\ notified
    /\ items = <<>>
    /\ Len(deselected) >= 2
    /\ \E id \in Range(deselected) : RefOutcome(id) = "passed"

\* C10: at selection, a candidate whose id has no record in the reference
\* is classified new, and no id that the reference, a completed session's
\* store, held when it was marked complete is classified new.
C10_NewIffAbsent ==
    pc = "select" =>
        LET prev == Prev(MergeReference(Live, RefItems), RefItems)
        IN  /\ \A i \in DOMAIN items :
                  /\ items[i] \in DOMAIN prev
                  /\ (\A j \in DOMAIN RefItems : RefItems[j].nodeid # items[i])
                     => prev[items[i]] = "new"
            /\ (Ref # 0 /\ stores[Ref].version = 5)
               => \A id \in meta[Ref].final : id \in DOMAIN prev /\ prev[id] # "new"

\* a selection about to classify, against a completed session's store, a
\* candidate the store has and a candidate it does not have
C10_Witness ==
    /\ pc = "select"
    /\ Ref # 0
    /\ stores[Ref].version = 5
    /\ \E i \in DOMAIN items : items[i] \in meta[Ref].final
    /\ \E i \in DOMAIN items : items[i] \notin IdsOf(RefItems)

\* the session files a default reference is looked for in: those named
\* session-*, still there and stamped complete
CompleteSessions == {i \in DOMAIN stores : stores[i].named /\ ~stores[i].deleted /\ stores[i].version = 5}

\* C16: when a session is configured without --reference, its reference is
\* the most recently created session file stamped complete (5), whatever
\* newer files that are not complete there are, and it is empty when no
\* session file is complete; with --reference naming a file that is there,
\* that file is the reference, whatever newer complete files there are.
C16_ReferenceIsNewestComplete ==
    [][Len(stores') # Len(stores)
       => \A cl \in CommandLines, r \in 0..MaxDir, tree \in Trees, m \in Modes :
             Configure(Options(cl, r, m), tree)
             => IF r # 0 THEN Ref' = r
                ELSE IF CompleteSessions = {} THEN Ref' = 0
                ELSE /\ Ref' \in CompleteSessions
                     /\ \A j \in CompleteSessions : j <= Ref']_vars

\* a session whose reference is the complete session file it found first in
\* the directory, the newer session file being one that crashed
C16_Witness ==
    /\ pc = "collect"
    /\ Cur = 3
    /\ Ref = 1
    /\ stores[1].named /\ stores[1].version = 5
    /\ stores[2].named /\ stores[2].version = 1

\* C17 as claimed: a session whose requested reference is not there, or that
\* found no complete session, goes on with an empty reference: no error is
\* raised, at selection every candidate classifies as new and the merge adds
\* nothing, and the back-fill changes nothing.
C17_MissingReferenceIsEmpty ==
    (Cur > 0 /\ Ref \in {0, NoSuch})
    => /\ pc # "error"
       /\ pc = "select"
          => /\ MergeReference(Live, RefItems) = Live
             /\ \A i \in DOMAIN items :
                   Prev(MergeReference(Live, RefItems), RefItems)[items[i]] = "new"
       /\ pc = "finish" => BackFill(Live, RefItems) = Live

\* the session files in the directory: named session-* and not deleted
SessionFiles(ss) == {i \in DOMAIN ss : ss[i].named /\ ~ss[i].deleted}

\* C18 as claimed: a clean session finish with retention limit N, for any
\* N >= 0, leaves exactly the N newest session files (all of them when there
\* are fewer), the deleted ones being older than every one left, and deletes
\* no file under another name.
C18_RetentionKeepsNewest ==
    [][\A lim \in SessionLimits :
          (SessionFinish(lim) /\ ~FinishReturnsEarly(mode))
          => LET before == SessionFiles(stores)
                 after == SessionFiles(stores')
             IN  /\ after \subseteq before
                 /\ Cardinality(after) =
                       IF Cardinality(before) < lim THEN Cardinality(before) ELSE lim
                 /\ \A i \in after, j \in before \ after : j < i
                 /\ \A i \in DOMAIN stores :
                       ~stores[i].named => stores'[i].deleted = stores[i].deleted]_vars

\* C19 as claimed: in a session run with --collect-only, with --cache-show or
\* as a worker, the session-finish hooks change nothing that is persisted:
\* no store is marked complete, none is deleted and no record changes.
C19_NoSideEffectAtFinish ==
    [][(FinishReturnsEarly(mode) /\ pc \in {"finish", "finish_session"})
       => stores' = stores]_vars

\* C20: no step of a session changes a record of its reference: from the
\* configuration of the session (which constructs the skipper) to its finish
\* (merge, selection, carry-forward, back-fill, completion, retention), the
\* rows of every store but the session's own stay as they are.
C20_ReferenceReadOnly ==
    [][/\ \A i \in DOMAIN stores :
             (i # Cur \/ Cur' # Cur) => stores'[i].items = stores[i].items
       /\ (Cur' = Cur /\ Cur > 0 /\ Ref \in DOMAIN stores)
          => /\ Ref' = Ref
             /\ stores'[Ref].items = stores[Ref].items]_vars

\* a completed session that merged its reference's rows, carried outcomes
\* forward for the candidates it deselected, and whose own table differs from
\* the reference's
C20_Witness ==
    /\ pc = "done"
    /\ Ref \in DOMAIN stores
    /\ RefItems # <<>>
    /\ notified
    /\ \E id \in Range(deselected) : RefOutcome(id) # "new"
    /\ Live # RefItems

\* what RerunPlugin.pytest_collection_modifyitems leaves of the candidate
\* list its in a fresh session, with the reference table refTbl
SelectedAlone(its, refTbl, tags, aif) ==
    LET prev == Prev(MergeReference(InsertPending(<<>>, its).tbl, refTbl), refTbl)
        kept == Kept(its, prev, tags)
    IN  IF tags = {} THEN its
        ELSE IF Deselects(kept, aif) THEN kept
        ELSE its

\* C11 as claimed: when a SkipCollection is registered, the items left to
\* run after selection include every item the selection alone would leave
\* of the full collection of the same files, with the same reference,
\* categories and select-all-if-none flag.
C11_SkipperSelectsSuperset ==
    (pc = "run" /\ trie # {})
    => Range(SelectedAlone(FullCollection(files, present, args), RefItems, rerun,
                           all_if_none))
       \subseteq Range(items)

\* the step in which the host collects the file it visits next
FileCollectionStep ==
    pc = "collect" /\ pc' = "collect" /\ todo # <<>> /\ Head(todo) \in FileIds

\* C12: as long as no collected node that is in the trie has been found, the
\* collection of a file is neither short-circuited nor filtered: the file's
\* result is what the host collected, and no file is counted as skipped; the
\* point is reached only by collecting a file one of whose children is in the
\* trie, and once reached it is not undone for the rest of the session.
C12_NoPruningBeforeFound ==
    [][/\ FileCollectionStep
          => /\ ~found_failure'
                => /\ todo' = Children(Head(todo), files, present, args) \o Tail(todo)
                   /\ skipped_paths' = 0
             /\ (~found_failure /\ found_failure')
                => \E n \in Range(Children(Head(todo), files, present, args)) :
                      InTrie(trie, n)
       /\ (Cur' = Cur /\ found_failure) => found_failure']_vars

\* a traversal that yielded, before the point was reached, a function that
\* is not in the trie from a file that is, and then reached the point
C12_Witness ==
    /\ pc = "collect"
    /\ found_failure
    /\ args = {}
    /\ \E i \in DOMAIN collected :
          /\ Len(collected[i]) = 2
          /\ InTrie(trie, FilePath(collected[i]))
          /\ ~InTrie(trie, collected[i])

\* the files the host's traversal has collected so far
Visited ==
    IF <<>> \in Range(todo) THEN {}
    ELSE {f \in files : Selected(f, args) /\ f \notin Range(todo)}

\* C13: with a reference in which a.py::t1 and a.py::t2 failed and b.py::t1
\* passed, a run for the category failed, without arguments, over files that
\* still hold the three tests yields nothing of b.py, leaves exactly the two
\* failures to run, and has counted one skipped file; and at any time the
\* count of skipped files is the number of files collected so far whose
\* collection was short-circuited, which are the files outside the trie
\* collected once a node in the trie was found.
C13_SkippedFiles ==
    /\ (pc = "run" /\ RefItems = TwoFailures /\ args = {}
          /\ "failed" \in requested /\ "new" \notin requested
          /\ {<<"a.py", "t1">>, <<"a.py", "t2">>, <<"b.py", "t1">>} \subseteq present)
       => /\ items = << <<"a.py", "t1">>, <<"a.py", "t2">> >>
          /\ \A i \in DOMAIN collected : FilePath(collected[i]) # <<"b.py">>
          /\ skipped_paths = 1
    /\ pc # "idle"
       => skipped_paths =
             Cardinality({f \in Visited : found_failure /\ ~InTrie(trie, f)})

\* the run of the scenario, after selection
C13_Witness ==
    /\ pc = "run"
    /\ RefItems = TwoFailures
    /\ args = {}
    /\ "failed" \in requested
    /\ {<<"a.py", "t1">>, <<"a.py", "t2">>, <<"b.py", "t1">>} \subseteq present
    /\ items = << <<"a.py", "t1">>, <<"a.py", "t2">> >>
    /\ skipped_paths = 1

\* a SkipCollection is registered only for a category set that is not empty
\* and has no 'new', some reference id of which has a matching outcome and a
\* path that is a file under the root
ActiveOnlyIfUseful ==
    trie # {}
    => /\ requested # {}
       /\ "new" \notin requested
       /\ MatchingIds(RefItems, requested) # {}
       /\ \E id \in MatchingIds(RefItems, requested) : FilePath(id) \in files

StepResult == SubSeq(todo', 1, Len(todo') - Len(todo) + 1)

\* C15: once skipping is active, the filtering of the children of a file
\* that is in the trie removes only functions that are neither in the trie
\* nor named on the command line: no class, no node in the trie and no node
\* named on the command line is removed.
C15_FilterRemovesOnlyLeaves ==
    [][(FileCollectionStep /\ InTrie(trie, Head(todo)) /\ found_failure')
       => \A n \in Range(Children(Head(todo), files, present, args)) :
             /\ (n \notin TestIds \/ InTrie(trie, n) \/ n \in args) => n \in Range(StepResult)
             /\ n \notin Range(StepResult)
                => (n \in TestIds /\ ~InTrie(trie, n) /\ n \notin args)]_vars

\* after a file's children were filtered: its class, which is not in the
\* trie, is the next node to visit, and its function t2, which is not in the
\* trie either, was removed
C15_Witness ==
    /\ pc = "collect"
    /\ found_failure
    /\ args = {}
    /\ todo # <<>>
    /\ Head(todo) = <<"a.py", "C">>
    /\ ~InTrie(trie, <<"a.py", "C">>)
    /\ <<"a.py", "t2">> \in present
    /\ ~InTrie(trie, <<"a.py", "t2">>)
    /\ <<"a.py", "t2">> \notin Range(todo) \cup Range(collected)

\* C21: in every store, a record with a collect blob has outcome failed or
\* skipped: no warning, phase report, merge, carry-forward or back-fill
\* changes the outcome of a collection record, so the assertion of
\* ShowSessionPlugin.pytest_collection holds for every store.
C21_CollectRecordsFailedOrSkipped ==
    \A s \in DOMAIN stores : \A i \in DOMAIN stores[s].items :
        stores[s].items[i].collect # Null
        => stores[s].items[i].outcome \in {"failed", "skipped"}

\* a completed second session whose store has a collection record merged
\* from its reference (the collector was not collected again), and in which
\* a test got a warning
C21_Witness ==
    /\ pc = "done"
    /\ Cur = 2
    /\ warned # {}
    /\ \E i \in DOMAIN Live :
          /\ Live[i].collect # Null
          /\ Live[i].nodeid \notin meta[Cur].collected

\* the ids of a table are distinct
UniqueIds(tbl) == \A i, j \in DOMAIN tbl : tbl[i].nodeid = tbl[j].nodeid => i = j

\* C22: in every store there is at most one record per node id: no sequence
\* of pending inserts, collection records, reference merges, carry-forward
\* writes or back-fills creates a second record for an id.
C22_OneRecordPerId == \A s \in DOMAIN stores : UniqueIds(stores[s].items)

\* a second session after its selection: one of its candidates has a row in
\* the reference too, and the merge added a reference row for an id the
\* session did not collect
C22_Witness ==
    /\ pc = "run"
    /\ Cur = 2
    /\ \E id \in Range(items) : HasRow(RefItems, id)
    /\ \E id \in IdsOf(RefItems) : id \notin meta[Cur].collected /\ HasRow(Live, id)

\* C23: in every store every record's outcome is one of the eight values of
\* the CHECK constraint: what outcome normalization, carry-forward and
\* back-fill write is among them, and 'new' is written to no store.
C23_OutcomesClosed ==
    \A s \in DOMAIN stores : \A i \in DOMAIN stores[s].items :
        /\ stores[s].items[i].outcome \in Outcomes
        /\ stores[s].items[i].outcome # "new"

\* a completed session that deselected a candidate its reference does not
\* have, whose record is pending, and ran one that was reported as an
\* expected failure
C23_Witness ==
    /\ pc = "done"
    /\ notified
    /\ \E id \in Range(deselected) : RefOutcome(id) = "new" /\ LiveOutcome(id) = "pending"
    /\ \E id \in Range(items) : LiveOutcome(id) = "xfailed"

\* the step in which SessionPlugin.pytest_collection_modifyitems runs
PendingInsertStep == pc = "collect" /\ pc' \in {"select", "finish"}

\* C24 as claimed: the insertion of pending records for the collected ids
\* raises no error, leaves every record the live store already has as it is,
\* and gives every other collected id a pending record.
C24_PendingInsertNoOpOnConflict ==
    [][PendingInsertStep
       => /\ pc' = "select"
          /\ \A i \in DOMAIN Live : Live'[i] = Live[i]
          /\ \A id \in Range(items') :
                /\ HasRow(Live', id)
                /\ ~HasRow(Live, id) => RowOf(Live', id).outcome = "pending"]_vars

\* the outcome the rules give a phase report, the first rule that applies
\* deciding
RuledOutcome(when, raw, wasxfail) ==
    IF wasxfail /\ raw = "skipped" THEN "xfailed"
    ELSE IF wasxfail /\ raw = "passed" THEN "xpassed"
    ELSE IF wasxfail /\ raw = "failed" THEN "xfailed"
    ELSE IF raw = "skipped" THEN "skipped"
    ELSE IF raw = "failed" /\ when \in {"setup", "teardown", "collect"} THEN "error"
    ELSE IF raw = "failed" /\ when = "call" THEN "failed"
    ELSE raw

\* C25: the outcome a phase report is normalized to, which is recorded when
\* the stored outcome is pending or passed, is: xfailed for an expected
\* failure reported as skipped; x followed by the raw outcome for any other
\* expected failure; skipped for a report that is skipped; error for a
\* failure in setup or teardown; failed for a failure in call; the raw outcome
\* otherwise; the expected-failure rule going before the skipped rule, which
\* goes before the error rule.
C25_Normalization ==
    [][\A id \in TestIds, r \in AllReports :
          LogReport(id, r[1], r[2], r[3])
          => /\ hist'[id] = Append(hist[id], RuledOutcome(r[1], r[2], r[3]))
             /\ LiveOutcome(id) \in {"pending", "passed"}
                => RowOf(Live', id).outcome = RuledOutcome(r[1], r[2], r[3])]_vars

\* an item whose setup was reported skipped as an expected failure, recorded
\* xfailed, and one whose teardown was reported failed, recorded error
C25_Witness ==
    /\ pc = "run"
    /\ \E id \in Range(items) :
          /\ RowOf(Live, id).setup = ReportJson("setup", "skipped", TRUE)
          /\ LiveOutcome(id) = "xfailed"
    /\ \E id \in Range(items) :
          /\ RowOf(Live, id).teardown = ReportJson("teardown", "failed", FALSE)
          /\ LiveOutcome(id) = "error"

\* C26: a warning changes the store only when its context is runtest and it
\* has a node id; then the record of that node, whatever its outcome was,
\* gets the outcome warnings and nothing else changes, no record being
\* created when the node has none; a warning from the configuration or the
\* collection context, or without a node id, leaves every store as it is.
C26_WarningsOverwrite ==
    [][\A when \in {"config", "collect", "runtest"}, id \in TestIds \cup {<<>>} :
          WarningRecorded(when, id)
          => IF when = "runtest" /\ id # <<>>
             THEN /\ \A s \in DOMAIN stores : s # Cur => stores'[s] = stores[s]
                  /\ DOMAIN Live' = DOMAIN Live
                  /\ \A i \in DOMAIN Live :
                        IF Live[i].nodeid = id
                        THEN /\ Live'[i].outcome = "warnings"
                             /\ Live'[i] = [Live[i] EXCEPT !.outcome = "warnings"]
                        ELSE Live'[i] = Live[i]
             ELSE stores' = stores]_vars

\* an item that was reported failed or error, and whose record a warning
\* then made warnings
C26_Witness ==
    /\ pc = "run"
    /\ \E id \in Range(items) \cap warned :
          /\ hist[id] \in {<<"failed">>, <<"error">>}
          /\ LiveOutcome(id) = "warnings"

\* a warning was recorded for a test that has no record, and none was created
C26_WitnessNoRecord ==
    /\ pc = "run"
    /\ \E id \in warned : ~HasRow(Live, id)

\* how many times id is in the list
Occurrences(its, id) == Cardinality({i \in DOMAIN its : its[i] = id})

\* the list the selection hands to the ReorderPlugin: the candidates that
\* were not deselected
LeftBySelection == SelectSeq(items, LAMBDA id : id \notin Range(deselected'))

\* C27: reordering adds, removes and duplicates no candidate: whatever the
\* rank mapping and the reference, the candidate list after the hook call is
\* a permutation of the list the selection left.
C27_ReorderIsPermutation ==
    [][(SelectionStep /\ DOMAIN reorder # {})
       => /\ Len(items') = Len(LeftBySelection)
          /\ \A id \in TestIds :
                Occurrences(items', id) = Occurrences(LeftBySelection, id)]_vars

\* a reordered list of three candidates that is not in collection order
C27_Witness ==
    /\ pc = "run"
    /\ DOMAIN reorder # {}
    /\ Len(items) = 3
    /\ items # CollectionOrder

\* the rank of an outcome as the order list gives it: its index when it is
\* listed, and a rank behind every listed one when it is not
ListedRank(outcome) ==
    LET ranks == {reorder[o] : o \in DOMAIN reorder}
    IN  IF outcome \in DOMAIN reorder THEN reorder[outcome]
        ELSE 1 + CHOOSE m \in ranks : \A r \in ranks : r <= m

\* where id is in the list
Position(its, id) == CHOOSE i \in DOMAIN its : its[i] = id

\* C28 as claimed: after the selection, the candidate list is sorted by the
\* rank of each candidate's reference outcome (new when the reference has no
\* record of it), every outcome that is not in the order list ranking behind
\* every one that is; within a rank, by descending modification time of the
\* file; and candidates equal in both keep their relative order.
C28_FinalOrder ==
    [][(SelectionStep /\ DOMAIN reorder # {})
       => \A i, j \in DOMAIN items' :
             i < j
             => LET a == items'[i]
                    b == items'[j]
                    ra == ListedRank(RefOutcome(a))
                    rb == ListedRank(RefOutcome(b))
                IN  /\ ra <= rb
                    /\ ra = rb => mtime[FilePath(a)] >= mtime[FilePath(b)]
                    /\ (ra = rb /\ mtime[FilePath(a)] = mtime[FilePath(b)])
                       => Position(items, a) < Position(items, b)]_vars

\* the same order, for the order lists of fewer than a hundred pieces, whose
\* ranks all stay under the rank given to the outcomes that are not listed
C28_FinalOrderShortLists ==
    [][(SelectionStep /\ DOMAIN reorder # {} /\ \A o \in DOMAIN reorder : reorder[o] < 99)
       => \A i, j \in DOMAIN items' :
             i < j
             => LET a == items'[i]
                    b == items'[j]
                    ra == ListedRank(RefOutcome(a))
                    rb == ListedRank(RefOutcome(b))
                IN  /\ ra <= rb
                    /\ ra = rb => mtime[FilePath(a)] >= mtime[FilePath(b)]
                    /\ (ra = rb /\ mtime[FilePath(a)] = mtime[FilePath(b)])
                       => Position(items, a) < Position(items, b)]_vars

\* a list reordered under a short order list: a new test of the older file
\* put before a failed test of the newer one
C28_WitnessShortLists ==
    /\ pc = "run"
    /\ DOMAIN reorder # {}
    /\ \A o \in DOMAIN reorder : reorder[o] < 99
    /\ Len(items) >= 2
    /\ RefOutcome(items[1]) = "new"
    /\ RefOutcome(items[2]) = "failed"
    /\ mtime[FilePath(items[1])] < mtime[FilePath(items[2])]

\* the collection results and phase results among the events
Results(evs) == SelectSeq(evs, LAMBDA e : e[1] \in {"collectreport", "logreport"})

\* the results of a live run that are reported: the phase results and the
\* collection results that are not passed
Reported(evs) == SelectSeq(Results(evs), LAMBDA e : ~(e[1] = "collectreport" /\ e[3] = "passed"))

\* C29 as claimed: the replay of the store of a completed session emits the
\* collection results and phase results that the live run of that session
\* emitted: the same nodes and phases, in the same order, whether the session
\* ran all the tests or part of them, deselected some or reordered them.
C29_ReplayEqualsLive ==
    (pc \in {"shown", "interrupted"} /\ shown = Cur /\ stores[Cur].version = 5)
    => Results(replayed) = Reported(emitted)

\* the same, for the sessions that had an empty reference: there the replay
\* emits what the live run emitted
C29_FirstSessionReplay ==
    (pc \in {"shown", "interrupted"} /\ shown = Cur /\ stores[Cur].version = 5 /\ Ref = 0)
    => Results(replayed) = Reported(emitted)

\* the replay of a first session in which a collection was skipped and a
\* test ran
C29_WitnessFirstSession ==
    /\ pc = "shown"
    /\ shown = Cur
    /\ Ref = 0
    /\ Len(Results(replayed)) = 2
    /\ Results(replayed) = Reported(emitted)

\* the replay of a second session, in which a.py was collected without
\* error, interrupted for the collection error of the session before
C29_StaleCollectionError ==
    /\ pc = "interrupted"
    /\ shown = Cur
    /\ Cur = 2
    /\ stores[Cur].version = 5
    /\ emitted = <<CollectEvent(<<"a.py">>, "passed")>>
    /\ replayed = <<CollectEvent(<<"a.py">>, "failed")>>

\* the failed collection records of a store
FailedRecords(tbl) == {i \in DOMAIN tbl : tbl[i].collect # Null /\ tbl[i].outcome = "failed"}

\* the per-node events: start, phase result and finish
NodeEvents(evs) == SelectSeq(evs, LAMBDA e : e[1] \in {"logstart", "logreport", "logfinish"})

\* C30: the replay of a store that has failed collection records is
\* interrupted with the host's "N errors during collection", N being the
\* number of those records, and replays no start, phase or finish event of
\* any node; the replay of a store that has none is never aborted: it runs
\* to its end.
C30_InterruptedOnCollectionErrors ==
    (pc \in {"shown", "interrupted", "error"} /\ shown \in DOMAIN stores)
    => LET n == Cardinality(FailedRecords(stores[shown].items))
       IN  IF n > 0
           THEN /\ pc = "interrupted"
                /\ testsfailed = n
                /\ NodeEvents(replayed) = <<>>
           ELSE pc = "shown"

\* a replay interrupted for one collection error, of a store that holds the
\* phase results of a test
C30_Witness ==
    /\ pc = "interrupted"
    /\ shown \in DOMAIN stores
    /\ testsfailed = 1
    /\ Cardinality(FailedRecords(stores[shown].items)) = 1
    /\ ReplayReports(stores[shown].items) # <<>>
    /\ NodeEvents(replayed) = <<>>

\* a replay that ran to its end, of a store whose only collection record is
\* a skipped one
C30_WitnessNoError ==
    /\ pc = "shown"
    /\ shown \in DOMAIN stores
    /\ CollectRecords(stores[shown].items) # <<>>
    /\ FailedRecords(stores[shown].items) = {}
    /\ NodeEvents(replayed) # <<>>

\* a step of a --show-session run: its configuration, its collection or its
\* run loop
ReplayStep == pc' = "show_collect" \/ pc \in {"show_collect", "show_run"}

\* C31 as claimed: a --show-session run executes no test, creates no session
\* store, and modifies, marks complete or deletes none: the files of the
\* sessions directory and their contents are after it what they were before.
C31_ReplayLeavesStoresAlone ==
    [][ReplayStep
       => /\ stores' = stores
          /\ strays' = strays
          /\ meta' = meta
          /\ hist' = hist
          /\ emitted' = emitted]_vars

\* the same, for the replays of a store that is there, or of the empty
\* reference when no session is complete
C31_ReplayOfStoreThere ==
    [][(ReplayStep /\ shown' # NoSuch)
       => /\ stores' = stores
          /\ strays' = strays
          /\ meta' = meta
          /\ hist' = hist
          /\ emitted' = emitted]_vars

\* the replay of a store that is there has run to its end
C31_WitnessStoreThere ==
    /\ pc = "shown"
    /\ shown \in DOMAIN stores
    /\ replayed # <<>>
    /\ strays = {}

\* --show-session with --reference naming a file that is not there has left
\* an empty file of that name
C31_StrayFile ==
    /\ pc = "error"
    /\ shown = NoSuch
    /\ strays = {NoSuch}

\* the session runs with the categories failed and pending
Stepwise == requested = {"failed", "pending"}

\* the candidates the reference left failed or pending
LeftToDo(its) == SelectSeq(its, LAMBDA id : RefOutcome(id) \in {"failed", "pending"})

\* the selected nodes the run did not reach
NotReached == {id \in Range(items) : hist[id] = <<>>}

\* in the session that ran, no test that the reference has as passed got a
\* report, if some collected test was failed or pending in the reference
PassedNotRunAgain ==
    (\E id \in meta[Cur].collected \cap TestIds : RefOutcome(id) \in {"failed", "pending"})
    => \A id \in TestIds : RefOutcome(id) = "passed" => hist[id] = <<>>

\* C32 as claimed: over consecutive sessions run with the categories failed
\* and pending and a stop after N failures, a session selects exactly the
\* candidates its predecessor left failed or pending, and all of them when
\* there is no predecessor; a selected node the run did not reach is pending
\* at the end of the session; and no node that passed before is run while a
\* failed or pending one remains.
C32_StepwiseChain ==
    [][/\ (SelectionStep /\ Stepwise)
          => items' = IF Ref = 0 THEN items ELSE LeftToDo(items)
       /\ (pc' = "done" /\ pc # "done" /\ Stepwise)
          => /\ \A id \in NotReached' : RowOf(Live', id).outcome = "pending"
             /\ PassedNotRunAgain']_vars

\* C32 as amended: a session selects exactly the candidates its predecessor
\* left failed or pending when there are some, and every candidate when
\* there is none or no predecessor; a selected node the run did not reach
\* ends the session with the outcome the predecessor left it with, pending
\* when that is passed or when the predecessor has no record of it, so that
\* one left failed or pending is selected again in the next session; and no
\* node that passed before is run while a collected node that was left
\* failed or pending remains.
C32_StepwiseChainWithFallback ==
    [][/\ (SelectionStep /\ Stepwise)
          => items' = IF LeftToDo(items) # <<>> THEN LeftToDo(items) ELSE items
       /\ (pc' = "done" /\ pc # "done" /\ Stepwise)
          => /\ \A id \in NotReached' :
                   RowOf(Live', id).outcome =
                      IF RefOutcome(id)' \in {"new", "passed"} THEN "pending"
                      ELSE RefOutcome(id)'
             /\ PassedNotRunAgain']_vars

\* the third session of a chain: its first test, left pending by the second
\* session, failed and stopped the run, and the test after it, which the
\* second session left failed, was not reached and is failed in the store
C32_Witness ==
    /\ pc = "done"
    /\ Stepwise
    /\ Cur = 3
    /\ Len(items) = 2
    /\ RefOutcome(items[1]) = "pending"
    /\ hist[items[1]] = <<"failed">>
    /\ items[2] \in NotReached
    /\ RefOutcome(items[2]) = "failed"
    /\ LiveOutcome(items[2]) = "failed"

\* a session that ran every candidate, its predecessor having left none
\* failed or pending
C32_WitnessFallback ==
    /\ pc = "done"
    /\ Stepwise
    /\ Ref # 0
    /\ Len(items) = 2
    /\ RefOutcome(items[1]) = "passed"
    /\ LeftToDo(items) = <<>>
    /\ \A i \in DOMAIN items : hist[items[i]] # <<>>

\* every candidate's reference outcome is among the categories asked for
AllMatch == \A i \in DOMAIN items : RefOutcome(items[i]) \in requested

\* C33 as claimed: pytest_deselected is called only when the kept candidates
\* are fewer than the candidates, that is when at least one is deselected;
\* when every candidate is kept, when no category is asked for, or when none
\* matches and everything is selected, it is not called and the candidate
\* list is left as it was.
C33_NotifiedOnlyOnDeselection ==
    [][SelectionStep
       => /\ notified' => (deselected' # <<>> /\ Len(items') < Len(items))
          /\ (AllMatch \/ requested = {} \/ (NoneMatches /\ all_if_none))
             => (~notified' /\ items' = items)]_vars

\* what holds of it: candidates leave the list only through a call of
\* pytest_deselected that names them; a call with an empty list leaves the
\* list as it was; and without categories, or when none matches and
\* everything is selected, there is no call
C33_DeselectedAreNotified ==
    [][SelectionStep
       => /\ Len(items') < Len(items) => (notified' /\ deselected' # <<>>)
          /\ (notified' /\ deselected' = <<>>) => items' = items
          /\ ~notified' => (items' = items /\ deselected' = <<>>)
          /\ (requested = {} \/ (NoneMatches /\ all_if_none)) => ~notified']_vars

\* every candidate was kept, and pytest_deselected was called with an empty
\* list
C33_EmptyNotification ==
    /\ pc = "run"
    /\ requested # {}
    /\ items # <<>>
    /\ AllMatch
    /\ notified
    /\ deselected = <<>>

\* the step in which SessionPlugin.pytest_collection_modifyitems runs and
\* does not raise
PendingInsertDone == pc = "collect" /\ pc' = "select"

\* the blobs of a row are all null
NoBlobs(row) ==
    row.collect = Null /\ row.setup = Null /\ row.call = Null /\ row.teardown = Null

\* C34: in every session the pending records of the collected nodes are
\* inserted before the reference is merged and before the selection: after
\* the insert every candidate has a fresh pending record and the live store
\* holds nothing of the reference yet; at the selection the outcome lookup
\* finds every candidate; and after it the live record of a candidate is
\* still the one inserted for it, without blobs, pending or with the
\* outcome carried forward, never the reference's record.
C34_PendingBeforeMerge ==
    [][/\ PendingInsertDone
          => /\ \A i \in DOMAIN items' :
                   /\ HasRow(Live', items'[i])
                   /\ RowOf(Live', items'[i]) = NewRow(items'[i], "pending", Null)
             /\ \A i \in DOMAIN Live' : Live'[i].nodeid \in meta'[Cur].collected
       /\ SelectionStep
          => \A i \in DOMAIN items :
                LET id == items[i]
                IN  /\ HasRow(Live, id)
                    /\ id \in DOMAIN Prev(MergeReference(Live, RefItems), RefItems)
                    /\ HasRow(Live', id)
                    /\ NoBlobs(RowOf(Live', id))
                    /\ RowOf(Live', id).outcome \in {"pending", RefOutcome(id)}
                    /\ \A j \in DOMAIN Live : Live[j].nodeid = id => Live'[j].nodeid = id]_vars

\* a session whose candidate ran in the reference session: the reference
\* has its record with the text of the call phase, the live record has none
C34_Witness ==
    /\ pc = "run"
    /\ Ref # 0
    /\ \E i \in DOMAIN items :
          /\ HasRow(RefItems, items[i])
          /\ RowOf(RefItems, items[i]).call # Null
          /\ NoBlobs(RowOf(Live, items[i]))
          /\ RowOf(Live, items[i]).outcome = "pending"
    /\ \E i \in DOMAIN Live : Live[i].nodeid \notin meta[Cur].collected

\* rows that differ in their outcome at most
SameButOutcome(r, q) == [r EXCEPT !.outcome = q.outcome] = q

\* C35 as claimed: the reference is merged in every session that is run,
\* with or without categories: the selection step appends to the live store
\* a copy of every reference record whose id has no live record and leaves
\* every live record as it is, so that the ids of the live store include
\* the ids of the reference once the collection is over, and when the
\* session is complete.
C35_MergeInEverySession ==
    [][/\ SelectionStep
          => /\ Len(Live') >= Len(Live)
             /\ \A i \in DOMAIN Live :
                   /\ SameButOutcome(Live[i], Live'[i])
                   /\ Live'[i] # Live[i] => Live[i].nodeid \in Range(deselected')
             /\ SubSeq(Live', Len(Live) + 1, Len(Live'))
                   = SelectSeq(RefItems, LAMBDA r : ~HasRow(Live, r.nodeid))
             /\ IdsOf(RefItems) \subseteq IdsOf(Live')
       /\ (pc' \in {"finish", "finish_session", "done"} /\ Cur' = Cur /\ mode \notin {"cacheshow"})
          => IdsOf(RefItems) \subseteq IdsOf(Live')]_vars

\* what holds of it: where RerunPlugin.pytest_collection_modifyitems runs,
\* with or without categories, it appends a copy of every reference record
\* whose id has no live record, in the order of the reference, and replaces
\* or removes no live record (the carry-forward of a deselected node
\* changes the outcome of its record, nothing else)
C35_MergeAtSelection ==
    [][SelectionStep
       => /\ Len(Live') >= Len(Live)
          /\ \A i \in DOMAIN Live :
                /\ SameButOutcome(Live[i], Live'[i])
                /\ Live'[i] # Live[i] => Live[i].nodeid \in Range(deselected')
          /\ SubSeq(Live', Len(Live) + 1, Len(Live'))
                = SelectSeq(RefItems, LAMBDA r : ~HasRow(Live, r.nodeid))
          /\ IdsOf(RefItems) \subseteq IdsOf(Live')]_vars

\* a session that ended without the merge and was stamped complete: its
\* store lacks a record its reference has
C35_CompleteWithoutMerge ==
    /\ pc = "done"
    /\ stores[Cur].version = 5
    /\ Ref \in DOMAIN stores
    /\ ~(IdsOf(RefItems) \subseteq IdsOf(Live))

\* a session run without categories: its store holds the record of a test
\* that was not collected, copied from the reference with the text of its
\* call phase, beside the fresh record of a candidate the reference also has
C35_WitnessAtSelection ==
    /\ pc = "run"
    /\ requested = {}
    /\ Ref # 0
    /\ \E i \in DOMAIN Live :
          /\ Live[i].nodeid \notin meta[Cur].collected
          /\ Live[i].call # Null
          /\ Live[i] \in Range(RefItems)
    /\ \E i \in DOMAIN items : HasRow(RefItems, items[i]) /\ NoBlobs(RowOf(Live, items[i]))

\* C36: at a clean session finish the pending records are back-filled
\* before the store is stamped complete: the step that stamps it changes no
\* record, and finds no pending record that the reference has with an
\* outcome other than passed or pending; the stamp of a store never decreases; and a store that carries
\* the complete stamp keeps its records and its stamp for good.
C36_StampAfterBackFill ==
    [][\A i \in DOMAIN stores :
          /\ i \in DOMAIN stores'
          /\ stores'[i].version >= stores[i].version
          /\ stores[i].version = 5
             => (stores'[i].version = 5 /\ stores'[i].items = stores[i].items)
          /\ stores'[i].version # stores[i].version
             => /\ i = Cur
                /\ pc = "finish_session"
                /\ stores'[i].version = 5
                /\ stores'[i].items = stores[i].items
                /\ \A j \in DOMAIN Live :
                      Live[j].outcome = "pending"
                      => RefOutcome(Live[j].nodeid) \in {"new", "passed", "pending"}]_vars

\* a second session is complete, a pending record of it back-filled with
\* the failed of the first, whose store is what it was when it was stamped
C36_Witness ==
    /\ pc = "done"
    /\ Cur = 2
    /\ Ref = 1
    /\ stores[1].version = 5
    /\ stores[2].version = 5
    /\ IdsOf(stores[1].items) = meta[1].final
    /\ \E id \in Range(items) :
          hist[id] = <<>> /\ RefOutcome(id) = "failed" /\ LiveOutcome(id) = "failed"

\* C37: containment in the trie is being a prefix of (or equal to) the
\* segments of some id the trie was built from, and a trie built from no id
\* is falsy and contains nothing -- as claimed
C37_ContainmentIsPrefix ==
    \A i \in DOMAIN lookups : lookups[i].call = "contains" =>
        /\ lookups[i].found <=> \E id \in trie : IsPrefix(lookups[i].item, id)
        /\ trie = {} => ~lookups[i].truthy /\ ~lookups[i].found

\* C37 as the code has it: the walk over no segment ends on the root dict,
\* so the root path is contained in every trie, the empty one too; any
\* other query is contained exactly when it is a prefix of a stored id, and
\* the trie is falsy exactly when it was built from no id
C37_ContainmentIsPrefixButRoot ==
    \A i \in DOMAIN lookups : lookups[i].call = "contains" =>
        /\ lookups[i].found <=>
              \/ lookups[i].item = <<>>
              \/ \E id \in trie : IsPrefix(lookups[i].item, id)
        /\ lookups[i].truthy <=> trie # {}
        /\ trie = {} /\ lookups[i].item # <<>> => ~lookups[i].found

\* a directory is found because a stored id descends through it, though no
\* stored id is the directory itself
C37_Witness ==
    \E i \in DOMAIN lookups :
        /\ lookups[i].call = "contains"
        /\ lookups[i].item = <<"d">>
        /\ lookups[i].found
        /\ <<"d">> \notin trie
        /\ lookups[i].truthy

\* the root path looked up in a trie built from nothing
C37_WitnessRoot ==
    \E i \in DOMAIN lookups :
        lookups[i].call = "contains" /\ trie = {} /\ lookups[i].item = <<>> /\ lookups[i].found /\ ~lookups[i].truthy

\* C38: for the session and for a directory the skipper only reorders the
\* children of the report: the result lists the same children, none
\* removed; every child in the trie precedes every child that is not; and
\* two children that are both in the trie, or both not, stay in the order
\* the host listed them
C38_OnlyReorders ==
    \A c \in DOMAIN lookups : lookups[c].call = "report" =>
        LET before == lookups[c].nodes
            after == lookups[c].result
        IN  /\ Len(after) = Len(before)
            /\ Range(after) = Range(before)
            /\ \A i, j \in DOMAIN after :
                  i < j /\ InTrie(trie, after[j]) => InTrie(trie, after[i])
            /\ \A i, j \in DOMAIN before :
                  i < j /\ (InTrie(trie, before[i]) <=> InTrie(trie, before[j]))
                     => Position(after, before[i]) < Position(after, before[j])

\* a directory report in which a child in the trie was listed after two
\* that are not: it is moved before them, and the two keep their order
C38_Witness ==
    \E c \in DOMAIN lookups :
        /\ lookups[c].call = "report"
        /\ lookups[c].collector = <<"d">>
        /\ lookups[c].nodes = << <<"d", "y.py">>, <<"d", "x.py">>, <<"d", "c.py">> >>
        /\ lookups[c].result = << <<"d", "c.py">>, <<"d", "y.py">>, <<"d", "x.py">> >>

\* the files the running session collected without a failed or skipped
\* collection report
CollectedFine ==
    {f \in FileIds :
        /\ CollectEvent(f, "passed") \in Range(emitted)
        /\ CollectEvent(f, "failed") \notin Range(emitted)
        /\ CollectEvent(f, "skipped") \notin Range(emitted)}

\* C39 as claimed: when a file was collected without a failed or skipped
\* collection report in the session that has just completed, the store of
\* that session holds no record with a collection result for the file,
\* whatever the reference holds
C39_NoStaleCollectRecord ==
    (pc = "done" /\ stores[Cur].version = 5) =>
        \A f \in CollectedFine :
            ~\E i \in DOMAIN Live : Live[i].nodeid = f /\ Live[i].collect # Null

\* what holds: a collection record of such a file in the completed store is
\* the record the reference holds for it, copied by the merge
C39_CollectRecordIsMerged ==
    (pc = "done" /\ stores[Cur].version = 5) =>
        \A f \in CollectedFine : \A i \in DOMAIN Live :
            (Live[i].nodeid = f /\ Live[i].collect # Null)
                => \E j \in DOMAIN RefItems : RefItems[j] = Live[i]

\* a second session that collected a.py without error and completed, its
\* store holding the failed collection record of the session before
C39_StaleRecord ==
    /\ pc = "done"
    /\ stores[Cur].version = 5
    /\ Ref = 1
    /\ <<"a.py">> \in CollectedFine
    /\ \E i \in DOMAIN Live :
          Live[i].nodeid = <<"a.py">> /\ Live[i].collect # Null /\ Live[i].outcome = "failed"

\* the step in which pytest_runtest_logreport runs
ReportStep == pc = "run" /\ pc' = "run" /\ Len(emitted') = Len(emitted) + 1

\* a row whose phase columns, collect column and location are NULL
NothingRecorded(row) ==
    /\ row.collect = Null /\ row.setup = Null /\ row.call = Null /\ row.teardown = Null
    /\ row.location = Null

\* C40: the carry-forward of the deselected nodes and the back-fill at the
\* end of the session change nothing but the outcome of a live record: its
\* collect, setup, call and teardown texts and its location stay as they
\* were, NULL for a collected node that was deselected; and the report of
\* a phase stores its text in the column of that phase whether or not it
\* changes the outcome, and leaves the other columns but the outcome, and
\* every other record, as they were
C40_OutcomeWritesKeepTheRest ==
    [][/\ (SelectionStep \/ BackFillStep) =>
             /\ Len(Live') >= Len(Live)
             /\ \A i \in DOMAIN Live :
                   Live'[i] = [Live[i] EXCEPT !.outcome = Live'[i].outcome]
       /\ SelectionStep =>
             \A id \in Range(deselected') : NothingRecorded(RowOf(Live', id))
       /\ ReportStep =>
             \E id \in Range(items), r \in AllReports :
                LET text == ReportJson(r[1], r[2], r[3])
                IN  /\ emitted'[Len(emitted')] = PhaseEvent(id, text)
                    /\ Len(Live') = Len(Live)
                    /\ \A i \in DOMAIN Live :
                          IF Live[i].nodeid = id
                          THEN /\ Live'[i][r[1]] = text
                               /\ Live'[i] = [Live[i] EXCEPT !.outcome = Live'[i].outcome,
                                                             ![r[1]] = text]
                          ELSE Live'[i] = Live[i]]_vars

\* a completed session in which a test was started but gave no report: its
\* record has the outcome of the reference, filled in at the end, and the
\* location stored at its start
C40_Witness ==
    /\ pc = "done"
    /\ stores[Cur].version = 5
    /\ \E i \in DOMAIN Live :
          /\ Live[i].nodeid \in Range(items)
          /\ Live[i].location # Null
          /\ Live[i].outcome = "failed"
          /\ RefOutcome(Live[i].nodeid) = "failed"
          /\ Live[i].call = Null /\ Live[i].setup = Null /\ Live[i].teardown = Null

\* a record whose setup failed and whose call passed afterwards: the text
\* of the call is stored though the outcome stayed error
C40_WitnessReport ==
    /\ pc = "run"
    /\ \E i \in DOMAIN Live :
          /\ Live[i].nodeid \in Range(items)
          /\ hist[Live[i].nodeid] = <<"error", "passed">>
          /\ Live[i].outcome = "error"
          /\ Live[i].setup = ReportJson("setup", "failed", FALSE)
          /\ Live[i].call = ReportJson("call", "passed", FALSE)
          /\ Live[i].teardown = Null

\* a deselected node whose outcome was carried forward
C40_WitnessCarried ==
    /\ pc = "run"
    /\ \E id \in Range(deselected) :
          RowOf(Live, id).outcome = "passed" /\ NothingRecorded(RowOf(Live, id))

====
